---- MODULE Spec2Model ----
(***************************************************************************)
(* A model of the EDL front end (EdlParser, Edl/Parser.cpp) of             *)
(* VbsEnclaveTooling.                                                      *)
(*                                                                         *)
(* The parser is a recursive-descent parser over the token stream of one   *)
(* .edl file.  Its members (m_developer_types, the insertion-order list,   *)
(* the two function maps and lists, m_abi_function_index) are the state.   *)
(* Every parser function is an operator from a parser record to a parser   *)
(* record; a thrown EdlAnalysisException is the field err, and once it is  *)
(* set every later step is skipped (the exception unwinds to the caller of *)
(* Parse).  The actions are the steps of Parse and of the ParseBody loop;  *)
(* the tokens the lexer hands over are drawn, one top-level declaration at *)
(* a time, from bounded sets of token sequences.                           *)
(*                                                                         *)
(* Source positions (m_cur_line, m_cur_column) only decorate diagnostics   *)
(* and are left out.                                                       *)
(***************************************************************************)
EXTENDS Integers, Sequences, FiniteSets, TLC

(***************************************************************************)
(* Tokens.  A token is its raw text and its classifier.  Comparing a token *)
(* with a literal compares the raw text only.                              *)
(***************************************************************************)
Identifier(s) == [text |-> s, type |-> "Identifier"]

UnsignedInteger(s) == [text |-> s, type |-> "UnsignedInteger"]

Hexidecimal(s) == [text |-> s, type |-> "Hexidecimal"]

Symbol(s) == [text |-> s, type |-> "Symbol"]

END_OF_FILE_CHARACTER == "<NUL>"

EndOfFileToken == [text |-> END_OF_FILE_CHARACTER, type |-> "EndOfFile"]

\* A default-constructed Token (Token::IsEmpty() is true of it).
EmptyToken == [text |-> "", type |-> "Empty"]

IsIdentifier(token) == token.type = "Identifier"

IsUnsignedInteger(token) == token.type = "UnsignedInteger"

IsEmpty(token) == token.type = "Empty"

LEFT_CURLY_BRACKET == "{"

RIGHT_CURLY_BRACKET == "}"

LEFT_ROUND_BRACKET == "("

RIGHT_ROUND_BRACKET == ")"

LEFT_SQUARE_BRACKET == "["

RIGHT_SQUARE_BRACKET == "]"

LEFT_ARROW_BRACKET == "<"

RIGHT_ARROW_BRACKET == ">"

COMMA == ","

SEMI_COLON == ";"

EQUAL_SIGN == "="

ASTERISK == "*"

EDL_ENCLAVE_KEYWORD == "enclave"

EDL_TRUSTED_KEYWORD == "trusted"

EDL_UNTRUSTED_KEYWORD == "untrusted"

EDL_ENUM_KEYWORD == "enum"

EDL_STRUCT_KEYWORD == "struct"

\* The fixed name under which every anonymous enum block is stored.
EDL_ANONYMOUS_ENUM_KEYWORD == "__anonymous_enum"

\* The reserved keywords of the language that are not type names.
ReservedKeywords ==
    {EDL_ENCLAVE_KEYWORD, EDL_TRUSTED_KEYWORD, EDL_UNTRUSTED_KEYWORD,
     EDL_ENUM_KEYWORD, EDL_STRUCT_KEYWORD}

\* primitive_name -> EdlTypeKind, for the primitive set plus vector.
c_string_to_edltype_map ==
    [n \in {"void", "bool", "char", "wchar_t", "int8_t", "int16_t", "int32_t",
            "int64_t", "uint8_t", "uint16_t", "uint32_t", "uint64_t", "float",
            "double", "size_t", "uintptr_t", "vector"} |->
        CASE n = "void" -> "Void"
          [] n = "bool" -> "Bool"
          [] n = "char" -> "Char"
          [] n = "wchar_t" -> "WChar"
          [] n = "int8_t" -> "Int8"
          [] n = "int16_t" -> "Int16"
          [] n = "int32_t" -> "Int32"
          [] n = "int64_t" -> "Int64"
          [] n = "uint8_t" -> "UInt8"
          [] n = "uint16_t" -> "UInt16"
          [] n = "uint32_t" -> "UInt32"
          [] n = "uint64_t" -> "UInt64"
          [] n = "float" -> "Float"
          [] n = "double" -> "Double"
          [] n = "size_t" -> "SizeT"
          [] n = "uintptr_t" -> "UIntPtr"
          [] n = "vector" -> "Vector"]

\* The decimal literals of the model and their values (TryParseDecimal).
DecimalLiterals == [n \in {"0", "1", "2", "5", "7"} |->
    CASE n = "0" -> 0 [] n = "1" -> 1 [] n = "2" -> 2 [] n = "5" -> 5 [] n = "7" -> 7]

\* The hexadecimal literals of the model and their values (TryParseHexidecimal).
HexLiterals == [n \in {"0x3", "0xA", "0x10"} |->
    CASE n = "0x3" -> 3 [] n = "0xA" -> 10 [] n = "0x10" -> 16]

TryParseDecimal(token) ==
    IF token.type = "UnsignedInteger" /\ token.text \in DOMAIN DecimalLiterals
    THEN <<DecimalLiterals[token.text]>> ELSE <<>>

TryParseHexidecimal(token) ==
    IF token.type = "Hexidecimal" /\ token.text \in DOMAIN HexLiterals
    THEN <<HexLiterals[token.text]>> ELSE <<>>

(***************************************************************************)
(* The IR (Edl/Structures.h).  An optional value is a sequence of length   *)
(* 0 or 1.  An unordered_map is a function on its key set.                 *)
(***************************************************************************)
EdlTypeInfo(name, kind) ==
    [m_name |-> name, m_type_kind |-> kind, is_pointer |-> FALSE, inner_type |-> <<>>]

ParsedAttributeInfo ==
    [m_in_present |-> FALSE, m_out_present |-> FALSE, m_in_and_out_present |-> FALSE,
     m_size_info |-> EmptyToken, m_count_info |-> EmptyToken]

IsSizeOrCountPresent(info) == ~IsEmpty(info.m_size_info) \/ ~IsEmpty(info.m_count_info)

Declaration(parent_kind) ==
    [m_parent_kind |-> parent_kind, m_name |-> "",
     m_edl_type_info |-> EdlTypeInfo("", "Void"),
     m_attribute_info |-> <<>>, m_array_dimensions |-> <<>>]

HasPointer(declaration) == declaration.m_edl_type_info.is_pointer

IsEdlType(declaration, kind) == declaration.m_edl_type_info.m_type_kind = kind

IsContainerType(declaration) == IsEdlType(declaration, "Vector")

\* EnumType(name, position): m_items keeps the members in declaration order.
EnumType(name, position) ==
    [m_name |-> name, m_value_position |-> position, m_declared_position |-> <<>>,
     m_value |-> <<>>, m_is_hex |-> FALSE, m_is_default_value |-> FALSE]

DeveloperType(name, kind) ==
    [m_name |-> name, m_type_kind |-> kind, m_fields |-> <<>>, m_items |-> <<>>,
     m_contains_inner_pointer |-> FALSE, m_contains_container_type |-> FALSE]

ItemsContain(items, value_name) == \E i \in 1..Len(items) : items[i].m_name = value_name

\* map[key] = value (operator[] followed by assignment).
MapAssign(map, key, value) ==
    [k \in DOMAIN map \cup {key} |-> IF k = key THEN value ELSE map[k]]

\* map.emplace(key, value): an existing entry is kept.
MapEmplace(map, key, value) ==
    IF key \in DOMAIN map THEN map ELSE MapAssign(map, key, value)

EmptyMap == [k \in {} |-> 0]

(***************************************************************************)
(* The parser record: the members of EdlParser, the tokens the lexer has   *)
(* still to hand over, and the exception in flight.                        *)
(***************************************************************************)
\* std::uint32_t m_abi_function_index {} (Edl/Parser.h).
InitialAbiFunctionIndex == 0

NewParser ==
    [input |-> <<>>,
     eof |-> FALSE,
     consumed |-> 0,
     err |-> "",
     m_developer_types |-> EmptyMap,
     m_developer_types_insertion_order_list |-> <<>>,
     m_trusted_functions_map |-> EmptyMap,
     m_trusted_functions_list |-> <<>>,
     m_untrusted_functions_map |-> EmptyMap,
     m_untrusted_functions_list |-> <<>>,
     m_abi_function_index |-> InitialAbiFunctionIndex]

\* A stub that raises nothing: the parser carries on.
ThrowNothing(p, error_id) == p

Throw(p, error_id) == [p EXCEPT !.err = error_id]

\* Run F unless an exception is already unwinding.
Bind(p, F(_)) == IF p.err # "" THEN p ELSE F(p)

\* An intermediate result e, named by the parameter of F.
Let(e, F(_)) == F(e)

\* The parser q after an iteration of a loop that began at p.  An iteration
\* that raised nothing and took no token of the file leaves the loop where
\* it was; the model ends it there with the mark NoProgress.
Iterated(p, q) ==
    IF q.err = "" /\ Len(q.input) >= Len(p.input)
    THEN [q EXCEPT !.err = "NoProgress"]
    ELSE q

PeekAtCurrentToken(p) == IF p.input = <<>> THEN EndOfFileToken ELSE Head(p.input)

\* The state after GetCurrentTokenAndMoveToNextToken; the token it returns
\* is PeekAtCurrentToken of the state before.  At the end of the file the
\* lexer keeps returning the end-of-file token.
GetCurrentTokenAndMoveToNextToken(p) ==
    IF p.input = <<>>
    THEN [p EXCEPT !.eof = TRUE, !.consumed = @ + 1]
    ELSE [p EXCEPT !.input = Tail(@), !.consumed = @ + 1]

ThrowIfExpectedTokenNotNext(p, expected_token) ==
    LET actual_next_token == PeekAtCurrentToken(p)
        p1 == GetCurrentTokenAndMoveToNextToken(p)
    IN  IF actual_next_token.text # expected_token
        THEN Throw(p1, "ExpectedTokenNotFound")
        ELSE p1

ThrowIfTokenNotIdentifier(p, token, error_id) ==
    IF ~IsIdentifier(token) THEN Throw(p, error_id) ELSE p

ThrowIfDuplicateDefinition(p, type_name) ==
    IF type_name \in DOMAIN p.m_developer_types
    THEN Throw(p, "DuplicateTypeDefinition")
    ELSE p

ThrowIfTypeNameIdentifierIsReserved(p, name) ==
    IF name \in DOMAIN c_string_to_edltype_map
    THEN Throw(p, "TypeNameIdentifierIsReserved")
    ELSE p

ThrowIfDuplicateFieldOrParamName(p, set, declaration) ==
    IF declaration.m_name \in set
    THEN Throw(p, "DuplicateFieldOrParameter")
    ELSE p

(***************************************************************************)
(* UpdateDeveloperTypeMetadata and AddDeveloperType.                       *)
(***************************************************************************)
\* The body of the loop over the fields of one developer type.
RECURSIVE UpdateFromFields(_, _, _)
UpdateFromFields(types, developer_type, i) ==
    IF i > Len(developer_type.m_fields) THEN developer_type
    ELSE IF developer_type.m_contains_inner_pointer /\ developer_type.m_contains_container_type
    THEN developer_type
    ELSE LET field == developer_type.m_fields[i] IN
         IF ~IsEdlType(field, "Struct")
         THEN UpdateFromFields(types, developer_type, i + 1)
         ELSE LET struct_field == types[field.m_edl_type_info.m_name] IN
              UpdateFromFields(
                  types,
                  [developer_type EXCEPT
                      !.m_contains_inner_pointer = @ \/ struct_field.m_contains_inner_pointer,
                      !.m_contains_container_type = @ \/ struct_field.m_contains_container_type],
                  i + 1)

\* One pass over m_developer_types in the iteration order `order` (a
\* sequence of its keys); an unordered_map fixes no order.
RECURSIVE UpdateDeveloperTypeMetadataIn(_, _, _)
UpdateDeveloperTypeMetadataIn(types, order, i) ==
    IF i > Len(order) THEN types
    ELSE UpdateDeveloperTypeMetadataIn(
             [types EXCEPT ![order[i]] = UpdateFromFields(types, types[order[i]], 1)],
             order, i + 1)

UpdateDeveloperTypeMetadata(p, order) ==
    [p EXCEPT !.m_developer_types = UpdateDeveloperTypeMetadataIn(@, order, 1)]

AddDeveloperType(p, new_type) ==
    [p EXCEPT !.m_developer_types = MapEmplace(@, new_type.m_name, new_type),
              !.m_developer_types_insertion_order_list = Append(@, new_type)]

(***************************************************************************)
(* ParseEnum.                                                              *)
(***************************************************************************)
\* m_developer_types[type_name].m_items.emplace(value_name, enum_type)
EmplaceEnumItem(p, type_name, enum_type) ==
    [p EXCEPT !.m_developer_types[type_name].m_items = Append(@, enum_type)]

\* The optional '= value' of an enum member.  The result is the parser, the
\* member, the position counter and the hex flag after it.
ParseEnumValueToken(p, enum_type, cur_enum_value_position, was_previous_value_hex) ==
    IF PeekAtCurrentToken(p).text # EQUAL_SIGN
    THEN [p |-> p, v |-> enum_type, cur |-> cur_enum_value_position,
          hex |-> was_previous_value_hex]
    ELSE LET p1 == GetCurrentTokenAndMoveToNextToken(p)
             enum_value_token == PeekAtCurrentToken(p1)
             p2 == GetCurrentTokenAndMoveToNextToken(p1)
             hex_value == TryParseHexidecimal(enum_value_token)
             decimal_value == TryParseDecimal(enum_value_token)
         IN  IF decimal_value # <<>>
             THEN [p |-> p2,
                   v |-> [enum_type EXCEPT !.m_declared_position = decimal_value,
                                           !.m_is_hex = FALSE,
                                           !.m_value = <<enum_value_token>>],
                   cur |-> decimal_value[1], hex |-> FALSE]
             ELSE IF hex_value # <<>>
             THEN [p |-> p2,
                   v |-> [enum_type EXCEPT !.m_declared_position = hex_value,
                                           !.m_is_hex = TRUE,
                                           !.m_value = <<enum_value_token>>],
                   cur |-> hex_value[1], hex |-> TRUE]
             ELSE [p |-> Throw(p2, "EnumValueNotFound"), v |-> enum_type,
                   cur |-> cur_enum_value_position, hex |-> was_previous_value_hex]

\* A stub end of an iteration that does not expect a comma after the member.
ParseEnumValueEndCommaNotChecked(r, type_name) ==
    IF r.p.err # ""
    THEN [p |-> r.p, cur |-> r.cur, hex |-> r.hex, def |-> FALSE]
    ELSE IF ItemsContain(r.p.m_developer_types[type_name].m_items, r.v.m_name)
    THEN [p |-> Throw(r.p, "EnumNameDuplicated"), cur |-> r.cur, hex |-> r.hex, def |-> FALSE]
    ELSE [p |-> EmplaceEnumItem(r.p, type_name, r.v), cur |-> r.cur + 1,
          hex |-> r.hex, def |-> FALSE]

\* The end of an iteration of the member loop: the comma, the duplicate
\* check and the insertion of the member; r is the iteration so far.
ParseEnumValueEnd(r, type_name) ==
    Let(IF r.p.err = "" /\ PeekAtCurrentToken(r.p).text # RIGHT_CURLY_BRACKET
        THEN ThrowIfExpectedTokenNotNext(r.p, COMMA)
        ELSE r.p,
        LAMBDA p1 :
            IF p1.err # ""
            THEN [p |-> p1, cur |-> r.cur, hex |-> r.hex, def |-> FALSE]
            ELSE IF ItemsContain(p1.m_developer_types[type_name].m_items, r.v.m_name)
            THEN [p |-> Throw(p1, "EnumNameDuplicated"), cur |-> r.cur, hex |-> r.hex,
                  def |-> FALSE]
            ELSE [p |-> EmplaceEnumItem(p1, type_name, r.v), cur |-> r.cur + 1,
                  hex |-> r.hex, def |-> FALSE])

\* One iteration of the loop over the members of an enum block.  The result
\* is the parser and the loop's locals after the iteration.
ParseEnumValue(p, type_name, is_anonymous_enum, cur_enum_value_position, was_previous_value_hex, is_default_value) ==
    LET enum_value_identifier == PeekAtCurrentToken(p)
        p1 == GetCurrentTokenAndMoveToNextToken(p)
        enum_type == [EnumType(enum_value_identifier.text, cur_enum_value_position) EXCEPT
                         !.m_is_hex = was_previous_value_hex,
                         !.m_is_default_value = is_default_value]
    IN  IF ~is_anonymous_enum /\ ~IsIdentifier(enum_value_identifier)
        THEN [p |-> Throw(p1, "EnumValueIdentifierNotFound"), cur |-> cur_enum_value_position,
              hex |-> was_previous_value_hex, def |-> is_default_value]
        ELSE Let(ParseEnumValueToken(p1, enum_type, cur_enum_value_position,
                                     was_previous_value_hex),
                 LAMBDA r : ParseEnumValueEnd(r, type_name))

RECURSIVE ParseEnumValues(_, _, _, _, _, _)
ParseEnumValues(p, type_name, is_anonymous_enum, cur_enum_value_position, was_previous_value_hex, is_default_value) ==
    IF p.err # "" \/ PeekAtCurrentToken(p).text = RIGHT_CURLY_BRACKET
    THEN p
    ELSE Let(ParseEnumValue(p, type_name, is_anonymous_enum, cur_enum_value_position,
                            was_previous_value_hex, is_default_value),
             LAMBDA r : ParseEnumValues(Iterated(p, r.p), type_name, is_anonymous_enum, r.cur, r.hex, r.def))

\* A stub start of ParseEnum that makes a new anonymous type for every
\* anonymous block.
ParseEnumStartNotMerged(p, enum_identifier_token, is_anonymous_enum, type_name) ==
    IF is_anonymous_enum
    THEN [p EXCEPT !.m_developer_types =
             MapAssign(@, type_name, DeveloperType(type_name, "AnonymousEnum"))]
    ELSE Bind(Bind(Bind(ThrowIfTokenNotIdentifier(p, enum_identifier_token,
                                                  "EnumNameIdentifierNotFound"),
                        LAMBDA q : ThrowIfTypeNameIdentifierIsReserved(q, type_name)),
                   LAMBDA q : ThrowIfDuplicateDefinition(q, type_name)),
              LAMBDA q :
                  GetCurrentTokenAndMoveToNextToken(
                      [q EXCEPT !.m_developer_types =
                          MapAssign(@, type_name, DeveloperType(type_name, "Enum"))]))

\* The start of ParseEnum, after the token behind 'enum' was taken: the
\* entry of the type in m_developer_types.
ParseEnumStart(p, enum_identifier_token, is_anonymous_enum, type_name) ==
    IF is_anonymous_enum
    THEN IF type_name \notin DOMAIN p.m_developer_types
         THEN [p EXCEPT !.m_developer_types =
                  MapAssign(@, type_name, DeveloperType(type_name, "AnonymousEnum"))]
         ELSE p
    ELSE Bind(Bind(Bind(ThrowIfTokenNotIdentifier(p, enum_identifier_token,
                                                  "EnumNameIdentifierNotFound"),
                        LAMBDA q : ThrowIfTypeNameIdentifierIsReserved(q, type_name)),
                   LAMBDA q : ThrowIfDuplicateDefinition(q, type_name)),
              LAMBDA q :
                  GetCurrentTokenAndMoveToNextToken(
                      [q EXCEPT !.m_developer_types =
                          MapAssign(@, type_name, DeveloperType(type_name, "Enum"))]))

\* The end of ParseEnum: '}' ';' and the push onto the insertion-order list.
ParseEnumEnd(p, type_name) ==
    Bind(Bind(ThrowIfExpectedTokenNotNext(p, RIGHT_CURLY_BRACKET),
              LAMBDA q : ThrowIfExpectedTokenNotNext(q, SEMI_COLON)),
         LAMBDA q :
            [q EXCEPT !.m_developer_types_insertion_order_list =
                          Append(@, q.m_developer_types[type_name])])

ParseEnum(p) ==
    LET enum_identifier_token == PeekAtCurrentToken(p)
        is_anonymous_enum == enum_identifier_token.text = LEFT_CURLY_BRACKET
        type_name == IF is_anonymous_enum THEN EDL_ANONYMOUS_ENUM_KEYWORD
                     ELSE enum_identifier_token.text
    IN  Bind(Bind(ParseEnumStart(GetCurrentTokenAndMoveToNextToken(p), enum_identifier_token,
                                 is_anonymous_enum, type_name),
                  LAMBDA q : ParseEnumValues(q, type_name, is_anonymous_enum, 0, FALSE, TRUE)),
             LAMBDA q : ParseEnumEnd(q, type_name))

(***************************************************************************)
(* Declarations: attributes, type, pointer, array dimensions.              *)
(* An operator that returns a value beside the parser returns the record   *)
(* [p |-> parser, v |-> value].                                            *)
(***************************************************************************)
\* CheckAttributeIsValid: the attribute kind, or "" for an invalid attribute.
CheckAttributeIsValid(token) ==
    CASE token.text = "in" -> "In"
      [] token.text = "out" -> "Out"
      [] token.text = "count" -> "Count"
      [] token.text = "size" -> "Size"
      [] OTHER -> ""

\* The processing of a size or count attribute: '=' and its value.
ParseSizeOrCount(p, attribute, attributeInfo) ==
    Let(ThrowIfExpectedTokenNotNext(p, EQUAL_SIGN),
        LAMBDA p1 :
            LET attribute_value == PeekAtCurrentToken(p1)
                p2 == GetCurrentTokenAndMoveToNextToken(p1)
            IN  IF p1.err # "" THEN [p |-> p1, v |-> attributeInfo]
                ELSE IF ~IsIdentifier(attribute_value) /\ ~IsUnsignedInteger(attribute_value)
                THEN [p |-> Throw(p2, "SizeOrCountValueInvalid"), v |-> attributeInfo]
                ELSE IF attribute = "Size"
                THEN [p |-> p2, v |-> [attributeInfo EXCEPT !.m_size_info = attribute_value]]
                ELSE [p |-> p2, v |-> [attributeInfo EXCEPT !.m_count_info = attribute_value]])

\* The processing of an attribute of the kind attribute.
ProcessAttribute(p, attribute, attributeInfo) ==
    IF attribute \in {"Count", "Size"}
    THEN ParseSizeOrCount(p, attribute, attributeInfo)
    ELSE IF attribute = "In"
    THEN [p |-> p, v |-> [attributeInfo EXCEPT !.m_in_present = TRUE]]
    ELSE [p |-> p, v |-> [attributeInfo EXCEPT !.m_out_present = TRUE]]

\* The end of an iteration of the attribute loop: in_and_out and the comma.
ParseAttributeEnd(r, kinds) ==
    IF r.p.err # "" THEN [p |-> r.p, kinds |-> kinds, v |-> r.v]
    ELSE [p |-> IF PeekAtCurrentToken(r.p).text # RIGHT_SQUARE_BRACKET
                THEN ThrowIfExpectedTokenNotNext(r.p, COMMA)
                ELSE r.p,
          kinds |-> kinds,
          v |-> [r.v EXCEPT !.m_in_and_out_present = r.v.m_in_present /\ r.v.m_out_present]]

\* A stub iteration that does not compare the attribute with the ones
\* already seen in the block.
ParseAttributeNotCompared(p, parent_kind, kinds, attributeInfo) ==
    LET token == PeekAtCurrentToken(p)
        p1 == GetCurrentTokenAndMoveToNextToken(p)
        attribute == CheckAttributeIsValid(token)
        stop(q) == [p |-> q, kinds |-> kinds, v |-> attributeInfo]
    IN  IF attribute = ""
        THEN stop(Throw(p1, "InvalidAttribute"))
        ELSE IF parent_kind = "Struct" /\ attribute \notin {"Count", "Size"}
        THEN stop(Throw(p1, "NonSizeOrCountAttributeInStruct"))
        ELSE Let(ProcessAttribute(p1, attribute, attributeInfo),
                 LAMBDA r : ParseAttributeEnd(r, kinds \cup {attribute}))

\* A stub iteration that accepts every attribute in a struct.
ParseAttributeStructNotChecked(p, parent_kind, kinds, attributeInfo) ==
    LET token == PeekAtCurrentToken(p)
        p1 == GetCurrentTokenAndMoveToNextToken(p)
        attribute == CheckAttributeIsValid(token)
        stop(q) == [p |-> q, kinds |-> kinds, v |-> attributeInfo]
    IN  IF attribute = ""
        THEN stop(Throw(p1, "InvalidAttribute"))
        ELSE IF attribute \in kinds
        THEN stop(Throw(p1, "DuplicateAttributeFound"))
        ELSE Let(ProcessAttribute(p1, attribute, attributeInfo),
                 LAMBDA r : ParseAttributeEnd(r, kinds \cup {attribute}))

\* One iteration of the loop of ParseAttributes; kinds are the attribute
\* kinds already seen in this block (attribute_and_token_pairs).
ParseAttribute(p, parent_kind, kinds, attributeInfo) ==
    LET token == PeekAtCurrentToken(p)
        p1 == GetCurrentTokenAndMoveToNextToken(p)
        attribute == CheckAttributeIsValid(token)
        stop(q) == [p |-> q, kinds |-> kinds, v |-> attributeInfo]
    IN  IF attribute = ""
        THEN stop(Throw(p1, "InvalidAttribute"))
        ELSE IF parent_kind = "Struct" /\ attribute \notin {"Count", "Size"}
        THEN stop(Throw(p1, "NonSizeOrCountAttributeInStruct"))
        ELSE IF attribute \in kinds
        THEN stop(Throw(p1, "DuplicateAttributeFound"))
        ELSE Let(ProcessAttribute(p1, attribute, attributeInfo),
                 LAMBDA r : ParseAttributeEnd(r, kinds \cup {attribute}))

RECURSIVE ParseAttributeList(_, _, _, _)
ParseAttributeList(p, parent_kind, kinds, attributeInfo) ==
    IF p.err # "" \/ PeekAtCurrentToken(p).text = RIGHT_SQUARE_BRACKET
    THEN [p |-> p, v |-> attributeInfo]
    ELSE Let(ParseAttribute(p, parent_kind, kinds, attributeInfo),
             LAMBDA r : ParseAttributeList(Iterated(p, r.p), parent_kind, r.kinds, r.v))

\* The value is the optional ParsedAttributeInfo.
ParseAttributes(p, parent_kind) ==
    IF PeekAtCurrentToken(p).text # LEFT_SQUARE_BRACKET
    THEN [p |-> p, v |-> <<>>]
    ELSE Let(ParseAttributeList(GetCurrentTokenAndMoveToNextToken(p), parent_kind,
                                {}, ParsedAttributeInfo),
             LAMBDA r :
                 [p |-> Bind(r.p, LAMBDA q : ThrowIfExpectedTokenNotNext(q, RIGHT_SQUARE_BRACKET)),
                  v |-> <<r.v>>])

\* One iteration of the loop of ParseVector.
ParseVectorArgument(p, vector_info) ==
    LET p1 == GetCurrentTokenAndMoveToNextToken(p)
        vector_value_token == PeekAtCurrentToken(p1)
        p2 == GetCurrentTokenAndMoveToNextToken(p1)
        token_name == vector_value_token.text
        stop(q) == [p |-> q, v |-> vector_info]
        done(inner) ==
            [p |-> ThrowIfExpectedTokenNotNext(p2, RIGHT_ARROW_BRACKET),
             v |-> [vector_info EXCEPT !.inner_type = <<inner>>]]
    IN  IF ~IsIdentifier(vector_value_token)
        THEN stop(Throw(p2, "VectorNameIdentifierNotFound"))
        ELSE IF token_name \in DOMAIN c_string_to_edltype_map
        THEN IF c_string_to_edltype_map[token_name] = "Vector"
             THEN stop(Throw(p2, "OnlySingleDimensionsSupported"))
             ELSE done([m_name |-> token_name,
                        m_type_kind |-> c_string_to_edltype_map[token_name]])
        ELSE IF token_name \in DOMAIN p2.m_developer_types
        THEN done([m_name |-> p2.m_developer_types[token_name].m_name,
                   m_type_kind |-> p2.m_developer_types[token_name].m_type_kind])
        ELSE stop(Throw(p2, "TypeInVectorMustBePreviouslyDefined"))

RECURSIVE ParseVectorArguments(_, _)
ParseVectorArguments(p, vector_info) ==
    IF p.err # "" \/ PeekAtCurrentToken(p).text # LEFT_ARROW_BRACKET
    THEN [p |-> p, v |-> vector_info]
    ELSE Let(ParseVectorArgument(p, vector_info),
             LAMBDA r : ParseVectorArguments(Iterated(p, r.p), r.v))

ParseVector(p) ==
    IF PeekAtCurrentToken(p).text # LEFT_ARROW_BRACKET
    THEN [p |-> Throw(p, "VectorDoesNotStartWithArrowBracket"),
          v |-> EdlTypeInfo("vector", "Vector")]
    ELSE ParseVectorArguments(p, EdlTypeInfo("vector", "Vector"))

\* The pointer part of ParseDeclarationTypeInfo; r is the type parsed so far.
ParsePointer(r) ==
    IF r.p.err # "" \/ PeekAtCurrentToken(r.p).text # ASTERISK
    THEN r
    ELSE LET p1 == GetCurrentTokenAndMoveToNextToken(r.p) IN
         [p |-> IF PeekAtCurrentToken(p1).text = ASTERISK
                THEN Throw(p1, "PointerToPointerInvalid")
                ELSE p1,
          v |-> [r.v EXCEPT !.is_pointer = TRUE]]

\* A stub lookup that takes a name that is not in m_developer_types for a
\* type.
ParseTypeNameNotLookedUp(p, type_name) ==
    [p |-> p, v |-> EdlTypeInfo(type_name, "Void")]

\* The type named by type_name: a primitive, a vector, or a developer type
\* that is already in m_developer_types.
ParseTypeName(p, type_name) ==
    IF type_name \in DOMAIN c_string_to_edltype_map
    THEN IF c_string_to_edltype_map[type_name] = "Vector"
         THEN ParseVector(p)
         ELSE [p |-> p, v |-> EdlTypeInfo(type_name, c_string_to_edltype_map[type_name])]
    ELSE IF type_name \in DOMAIN p.m_developer_types
    THEN [p |-> p, v |-> EdlTypeInfo(type_name, p.m_developer_types[type_name].m_type_kind)]
    ELSE [p |-> Throw(p, "DeveloperTypesMustBeDefinedBeforeUse"),
          v |-> EdlTypeInfo(type_name, "Void")]

ParseDeclarationTypeInfo(p) ==
    LET type_token == PeekAtCurrentToken(p)
        p1 == GetCurrentTokenAndMoveToNextToken(p)
    IN  IF ~IsIdentifier(type_token)
        THEN [p |-> Throw(p1, "IdentifierNameNotFound"), v |-> EdlTypeInfo(type_token.text, "Void")]
        ELSE Let(ParseTypeName(p1, type_token.text), LAMBDA r : ParsePointer(r))

\* A stub iteration that takes every value as a dimension and does not
\* count the dimensions.
ParseArrayDimensionNotChecked(p, dimensions) ==
    LET p1 == GetCurrentTokenAndMoveToNextToken(p)
        array_value_token == PeekAtCurrentToken(p1)
        p2 == GetCurrentTokenAndMoveToNextToken(p1)
    IN  [p |-> ThrowIfExpectedTokenNotNext(p2, RIGHT_SQUARE_BRACKET),
         v |-> Append(dimensions, array_value_token.text)]

\* One iteration of the loop of ParseArrayDimensions.
ParseArrayDimension(p, dimensions) ==
    LET p1 == GetCurrentTokenAndMoveToNextToken(p)
        array_value_token == PeekAtCurrentToken(p1)
        p2 == GetCurrentTokenAndMoveToNextToken(p1)
        token_name == array_value_token.text
        is_integer == IsUnsignedInteger(array_value_token)
        is_valid_identifier ==
            /\ IsIdentifier(array_value_token)
            /\ EDL_ANONYMOUS_ENUM_KEYWORD \in DOMAIN p2.m_developer_types
            /\ ItemsContain(p2.m_developer_types[EDL_ANONYMOUS_ENUM_KEYWORD].m_items, token_name)
    IN  IF Len(dimensions) >= 1
        THEN [p |-> Throw(p, "OnlySingleDimensionsSupported"), v |-> dimensions]
        ELSE IF ~is_integer /\ ~is_valid_identifier
        THEN [p |-> Throw(p2, "ArrayDimensionIdentifierInvalid"), v |-> dimensions]
        ELSE [p |-> ThrowIfExpectedTokenNotNext(p2, RIGHT_SQUARE_BRACKET),
              v |-> Append(dimensions, token_name)]

RECURSIVE ParseArrayDimensionList(_, _)
ParseArrayDimensionList(p, dimensions) ==
    IF p.err # "" \/ PeekAtCurrentToken(p).text # LEFT_SQUARE_BRACKET
    THEN [p |-> p, v |-> dimensions]
    ELSE Let(ParseArrayDimension(p, dimensions),
             LAMBDA r : ParseArrayDimensionList(Iterated(p, r.p), r.v))

ParseArrayDimensions(p) == ParseArrayDimensionList(p, <<>>)

ValidatePointers(p, declaration) ==
    IF ~HasPointer(declaration) THEN p
    ELSE IF declaration.m_edl_type_info.m_type_kind = "Void"
    THEN Throw(p, "PointerToVoidMustBeAnnotated")
    ELSE IF declaration.m_attribute_info = <<>> THEN p
    ELSE LET attribute_info == declaration.m_attribute_info[1]
             in_or_out_present == attribute_info.m_in_present \/ attribute_info.m_out_present
         IN  IF /\ declaration.m_parent_kind = "Function"
                /\ in_or_out_present
                /\ (declaration.m_array_dimensions # <<>> \/ IsEdlType(declaration, "Vector"))
             THEN Throw(p, "PointerToArrayNotAllowed")
             ELSE p

\* A stub that accepts size and count on every declaration.
SizeAndCountNotValidated(p, declaration) == p

ValidateNonSizeAndCountAttributes(p, declaration) ==
    IF declaration.m_attribute_info = <<>> THEN p
    ELSE IF IsSizeOrCountPresent(declaration.m_attribute_info[1]) /\ ~HasPointer(declaration)
    THEN Throw(p, "SizeAndCountNotValidForNonPointer")
    ELSE p

\* The name of a declaration; r is the declaration parsed so far.
ParseDeclarationName(r) ==
    IF r.p.err # "" THEN r
    ELSE LET declaration_name_token == PeekAtCurrentToken(r.p) IN
         [p |-> Bind(ThrowIfTokenNotIdentifier(GetCurrentTokenAndMoveToNextToken(r.p),
                                               declaration_name_token, "IdentifierNameNotFound"),
                     LAMBDA q : ThrowIfTypeNameIdentifierIsReserved(q, declaration_name_token.text)),
          v |-> [r.v EXCEPT !.m_name = declaration_name_token.text]]

\* The type of a declaration; r is the declaration parsed so far.
ParseDeclarationType(r) ==
    IF r.p.err # "" THEN r
    ELSE Let(ParseDeclarationTypeInfo(r.p),
             LAMBDA t : [p |-> t.p, v |-> [r.v EXCEPT !.m_edl_type_info = t.v]])

\* The array dimensions of a declaration and the check of its attributes.
ParseDeclarationEnd(r) ==
    IF r.p.err # "" THEN r
    ELSE Let(ParseArrayDimensions(r.p),
             LAMBDA d :
                 Let([r.v EXCEPT !.m_array_dimensions = d.v],
                     LAMBDA declaration :
                         [p |-> Bind(d.p, LAMBDA q :
                                    ValidateNonSizeAndCountAttributes(q, declaration)),
                          v |-> declaration]))

ParseDeclaration(p, parent_kind) ==
    Let(Let(Let(Let(ParseAttributes(p, parent_kind),
                    LAMBDA a : [p |-> a.p,
                                v |-> [Declaration(parent_kind) EXCEPT !.m_attribute_info = a.v]]),
                LAMBDA r : ParseDeclarationType(r)),
            LAMBDA r : ParseDeclarationName(r)),
        LAMBDA r : ParseDeclarationEnd(r))

(***************************************************************************)
(* Field and parameter lists, structs, functions.                          *)
(***************************************************************************)
\* A stub that gives a parameter without attributes no attributes.
NotDefaultedToIn(declaration, parent_kind) == declaration

\* A function parameter without attributes is an [in] parameter.
DefaultToIn(declaration, parent_kind) ==
    IF parent_kind = "Function" /\ declaration.m_attribute_info = <<>>
    THEN [declaration EXCEPT !.m_attribute_info =
                                 <<[ParsedAttributeInfo EXCEPT !.m_in_present = TRUE]>>]
    ELSE declaration

\* The checks of a parsed declaration and its insertion into the list.
AddListItem(p, declaration, param_names, list, list_ending_character, list_item_separator_character) ==
    Let(Bind(Bind(p, LAMBDA q : ValidatePointers(q, declaration)),
             LAMBDA q : ThrowIfDuplicateFieldOrParamName(q, param_names, declaration)),
        LAMBDA p2 :
            IF p2.err # ""
            THEN [p |-> p2, names |-> param_names, v |-> list]
            ELSE [p |-> IF PeekAtCurrentToken(p2).text # list_ending_character
                        THEN ThrowIfExpectedTokenNotNext(p2, list_item_separator_character)
                        ELSE p2,
                  names |-> param_names \cup {declaration.m_name},
                  v |-> Append(list, declaration)])

\* One iteration of the loop of ParseThroughFieldsOrParameterList.
ParseListItem(p, parent_kind, param_names, list, list_ending_character, list_item_separator_character) ==
    Let(ParseDeclaration(p, parent_kind),
        LAMBDA r : AddListItem(r.p, DefaultToIn(r.v, parent_kind), param_names, list,
                               list_ending_character, list_item_separator_character))

RECURSIVE ParseList(_, _, _, _, _, _)
ParseList(p, parent_kind, param_names, list, list_ending_character, list_item_separator_character) ==
    IF p.err # "" \/ PeekAtCurrentToken(p).text = list_ending_character
    THEN [p |-> p, v |-> list]
    ELSE Let(ParseListItem(p, parent_kind, param_names, list,
                           list_ending_character, list_item_separator_character),
             LAMBDA r : ParseList(Iterated(p, r.p), parent_kind, r.names, r.v,
                                  list_ending_character, list_item_separator_character))

ParseThroughFieldsOrParameterList(p, parent_kind, list_ending_character, list_item_separator_character) ==
    ParseList(p, parent_kind, {}, <<>>, list_ending_character, list_item_separator_character)

\* The initial metadata of a struct, from its own fields.
InitialMetadata(new_struct_type) ==
    [new_struct_type EXCEPT
        !.m_contains_inner_pointer =
            \E i \in 1..Len(new_struct_type.m_fields) : HasPointer(new_struct_type.m_fields[i]),
        !.m_contains_container_type =
            \E i \in 1..Len(new_struct_type.m_fields) : IsContainerType(new_struct_type.m_fields[i])]

\* The body of a struct, from behind its '{' to the insertion of the type.
ParseStructBody(p, name) ==
    Let(ParseThroughFieldsOrParameterList(p, "Struct", RIGHT_CURLY_BRACKET, SEMI_COLON),
        LAMBDA r :
            Bind(Bind(Bind(r.p, LAMBDA q : ThrowIfExpectedTokenNotNext(q, RIGHT_CURLY_BRACKET)),
                      LAMBDA q : ThrowIfExpectedTokenNotNext(q, SEMI_COLON)),
                 LAMBDA q : AddDeveloperType(q,
                     InitialMetadata([DeveloperType(name, "Struct") EXCEPT !.m_fields = r.v]))))

ParseStruct(p) ==
    LET struct_name_identifier == PeekAtCurrentToken(p)
        name == struct_name_identifier.text
    IN  Bind(Bind(Bind(Bind(ThrowIfTokenNotIdentifier(GetCurrentTokenAndMoveToNextToken(p),
                                                      struct_name_identifier,
                                                      "StructIdentifierNotFound"),
                            LAMBDA q : ThrowIfTypeNameIdentifierIsReserved(q, name)),
                       LAMBDA q : ThrowIfDuplicateDefinition(q, name)),
                  LAMBDA q : ThrowIfExpectedTokenNotNext(q, LEFT_CURLY_BRACKET)),
             LAMBDA q : ParseStructBody(q, name))

\* Function::GetDeclarationSignature: name(type1,type2,...).
RECURSIVE JoinTypeNames(_, _)
JoinTypeNames(parameters, i) ==
    IF i > Len(parameters) THEN ""
    ELSE (IF i > 1 THEN "," ELSE "") \o parameters[i].m_edl_type_info.m_name
         \o JoinTypeNames(parameters, i + 1)

GetDeclarationSignature(function) ==
    function.m_name \o "(" \o JoinTypeNames(function.m_parameters, 1) \o ")"

\* The Function built by ParseFunctionDeclaration.
Function(name, return_type_info, parameters) ==
    [m_name |-> name, abi_m_name |-> "",
     m_return_info |-> [Declaration("Function") EXCEPT
                           !.m_edl_type_info = return_type_info,
                           !.m_attribute_info =
                               <<[ParsedAttributeInfo EXCEPT !.m_out_present = TRUE]>>,
                           !.m_name = "_return_value_"],
     m_parameters |-> parameters]

\* The parameter list of a function, from '(' to ';'.
ParseFunctionParameters(p, name, return_type_info) ==
    Let(ThrowIfExpectedTokenNotNext(p, LEFT_ROUND_BRACKET),
        LAMBDA s :
            IF s.err # "" THEN [p |-> s, v |-> Function(name, return_type_info, <<>>)]
            ELSE Let(ParseThroughFieldsOrParameterList(s, "Function", RIGHT_ROUND_BRACKET, COMMA),
                     LAMBDA r :
                         [p |-> Bind(Bind(r.p, LAMBDA q :
                                         ThrowIfExpectedTokenNotNext(q, RIGHT_ROUND_BRACKET)),
                                     LAMBDA q : ThrowIfExpectedTokenNotNext(q, SEMI_COLON)),
                          v |-> Function(name, return_type_info, r.v)]))

\* A stub that reads the name of a function and does not look at the
\* pointer flag of the return type.
ParseFunctionNameReturnNotChecked(t) ==
    LET function_name_token == PeekAtCurrentToken(t.p) IN
    Let(Bind(Bind(t.p, LAMBDA q :
                 ThrowIfTokenNotIdentifier(GetCurrentTokenAndMoveToNextToken(q),
                                           function_name_token,
                                           "FunctionIdentifierNotFound")),
             LAMBDA q : ThrowIfTypeNameIdentifierIsReserved(q, function_name_token.text)),
        LAMBDA p1 :
            IF p1.err # "" THEN [p |-> p1, v |-> Function(function_name_token.text, t.v, <<>>)]
            ELSE ParseFunctionParameters(p1, function_name_token.text, t.v))

\* The name of a function; t is its return type, parsed.
ParseFunctionName(t) ==
    LET function_name_token == PeekAtCurrentToken(t.p) IN
    Let(Bind(Bind(Bind(t.p, LAMBDA q :
                      ThrowIfTokenNotIdentifier(GetCurrentTokenAndMoveToNextToken(q),
                                                function_name_token,
                                                "FunctionIdentifierNotFound")),
                  LAMBDA q : IF t.v.is_pointer THEN Throw(q, "ReturnValuesCannotBePointers")
                             ELSE q),
             LAMBDA q : ThrowIfTypeNameIdentifierIsReserved(q, function_name_token.text)),
        LAMBDA p1 :
            IF p1.err # "" THEN [p |-> p1, v |-> Function(function_name_token.text, t.v, <<>>)]
            ELSE ParseFunctionParameters(p1, function_name_token.text, t.v))

ParseFunctionDeclaration(p) ==
    Let(ParseDeclarationTypeInfo(p), LAMBDA t : ParseFunctionName(t))

\* std::format("{}_{}", parsed_function.m_name, m_abi_function_index++)
AbiName(name, abi_function_index) == name \o "_" \o ToString(abi_function_index)

\* A stub numbering that forgets the post-increment.
AbiFunctionIndexNotIncremented(abi_function_index) == abi_function_index

NextAbiFunctionIndex(abi_function_index) == abi_function_index + 1

\* The insertion of a function into the map and the list of its bank.
EmplaceFunction(p, function_kind, function_signature, function) ==
    IF function_kind = "Untrusted"
    THEN [p EXCEPT !.m_untrusted_functions_map = MapEmplace(@, function_signature, function),
                   !.m_untrusted_functions_list = Append(@, function),
                   !.m_abi_function_index = NextAbiFunctionIndex(@)]
    ELSE [p EXCEPT !.m_trusted_functions_map = MapEmplace(@, function_signature, function),
                   !.m_trusted_functions_list = Append(@, function),
                   !.m_abi_function_index = NextAbiFunctionIndex(@)]

\* A stub registration that does not look the signature up.
AddFunctionNotLookedUp(p, function_kind, parsed_function) ==
    EmplaceFunction(p, function_kind, GetDeclarationSignature(parsed_function),
        [parsed_function EXCEPT
            !.abi_m_name = AbiName(parsed_function.m_name, p.m_abi_function_index)])

\* The registration of a parsed function in the bank function_kind.
AddFunction(p, function_kind, parsed_function) ==
    LET function_signature == GetDeclarationSignature(parsed_function)
        func_map == IF function_kind = "Untrusted" THEN p.m_untrusted_functions_map
                    ELSE p.m_trusted_functions_map
    IN  IF function_signature \in DOMAIN func_map
        THEN Throw(p, "DuplicateFunctionDeclaration")
        ELSE EmplaceFunction(p, function_kind, function_signature,
                 [parsed_function EXCEPT
                     !.abi_m_name = AbiName(parsed_function.m_name, p.m_abi_function_index)])

RECURSIVE ParseFunctionList(_, _)
ParseFunctionList(p, function_kind) ==
    IF p.err # "" \/ PeekAtCurrentToken(p).text = RIGHT_CURLY_BRACKET
    THEN p
    ELSE Let(ParseFunctionDeclaration(p),
             LAMBDA r : ParseFunctionList(
                            Iterated(p, Bind(r.p, LAMBDA q :
                                                 AddFunction(q, function_kind, r.v))),
                            function_kind))

ParseFunctions(p, function_kind) ==
    Bind(Bind(Bind(ThrowIfExpectedTokenNotNext(p, LEFT_CURLY_BRACKET),
                   LAMBDA q : ParseFunctionList(q, function_kind)),
              LAMBDA q : ThrowIfExpectedTokenNotNext(q, RIGHT_CURLY_BRACKET)),
         LAMBDA q : ThrowIfExpectedTokenNotNext(q, SEMI_COLON))

(***************************************************************************)
(* The final validation of the size and count attributes.                  *)
(***************************************************************************)
GetSizeOrCountAttributeTokens(declaration) ==
    IF declaration.m_attribute_info = <<>> THEN <<>>
    ELSE LET info == declaration.m_attribute_info[1] IN
         (IF ~IsEmpty(info.m_size_info) THEN <<info.m_size_info>> ELSE <<>>)
         \o (IF ~IsEmpty(info.m_count_info) THEN <<info.m_size_info>> ELSE <<>>)

\* The optional Declaration: the first one of the list with the name.
FindDeclaration(declarations, name) ==
    LET found == {i \in 1..Len(declarations) : declarations[i].m_name = name} IN
    IF found = {} THEN <<>>
    ELSE <<declarations[CHOOSE i \in found : \A j \in found : i <= j]>>

UnsignedKinds == {"UInt8", "UInt16", "UInt32", "UInt64", "SizeT"}

\* The body of the loop over the tokens of one declaration: the error
\* thrown for the token, or "" when the loop continues.
ValidateSizeOrCountToken(p, declarations, token) ==
    LET declaration_found == FindDeclaration(declarations, token.text) IN
    IF ~IsIdentifier(token) THEN ""
    ELSE IF /\ EDL_ANONYMOUS_ENUM_KEYWORD \in DOMAIN p.m_developer_types
            /\ ItemsContain(p.m_developer_types[EDL_ANONYMOUS_ENUM_KEYWORD].m_items, token.text)
    THEN ""
    ELSE IF declaration_found = <<>> THEN "SizeOrCountAttributeNotFound"
    ELSE IF declaration_found[1].m_array_dimensions # <<>> THEN "SizeOrCountForArrayNotValid"
    ELSE IF declaration_found[1].m_edl_type_info.m_type_kind \in UnsignedKinds THEN ""
    ELSE "SizeOrCountInvalidType"

RECURSIVE ValidateSizeOrCountTokens(_, _, _, _)
ValidateSizeOrCountTokens(p, declarations, tokens, i) ==
    IF i > Len(tokens) THEN ""
    ELSE LET e == ValidateSizeOrCountToken(p, declarations, tokens[i]) IN
         IF e # "" THEN e ELSE ValidateSizeOrCountTokens(p, declarations, tokens, i + 1)

\* The error ValidateSizeAndCountAttributeDeclarations throws for the
\* declarations from the i-th on, or "" when it returns.
RECURSIVE ValidateSizeAndCountAttributeDeclarations(_, _, _)
ValidateSizeAndCountAttributeDeclarations(p, declarations, i) ==
    IF i > Len(declarations) THEN ""
    ELSE LET e == ValidateSizeOrCountTokens(
                      p, declarations, GetSizeOrCountAttributeTokens(declarations[i]), 1)
         IN  IF e # "" THEN e
             ELSE ValidateSizeAndCountAttributeDeclarations(p, declarations, i + 1)

\* The errors a loop of PerformFinalValidations over a map can end with: an
\* unordered_map fixes no iteration order, so any entry that fails can be
\* the first one met.
ErrorsOfMap(p, map, Declarations(_)) ==
    {ValidateSizeAndCountAttributeDeclarations(p, Declarations(map[k]), 1) : k \in DOMAIN map}
        \ {""}

\* The outcomes of PerformFinalValidations: the errors it can throw, or
\* {""} when it returns.  The three loops run in the order of the code.
PerformFinalValidations(p) ==
    LET trusted == ErrorsOfMap(p, p.m_trusted_functions_map, LAMBDA f : f.m_parameters)
        untrusted == ErrorsOfMap(p, p.m_untrusted_functions_map, LAMBDA f : f.m_parameters)
        types == ErrorsOfMap(p, p.m_developer_types, LAMBDA t : t.m_fields)
    IN  IF trusted # {} THEN trusted
        ELSE IF untrusted # {} THEN untrusted
        ELSE IF types # {} THEN types
        ELSE {""}

\* The iteration orders of an unordered_map with the key set S.
IterationOrders(S) ==
    {o \in [1..Cardinality(S) -> S] : \A i, j \in 1..Cardinality(S) : o[i] = o[j] => i = j}

\* The Edl value ParseBody returns.
Edl(p) ==
    [m_name |-> "file",
     m_developer_types |-> p.m_developer_types,
     m_developer_types_insertion_order_list |-> p.m_developer_types_insertion_order_list,
     m_trusted_functions_map |-> p.m_trusted_functions_map,
     m_trusted_functions_list |-> p.m_trusted_functions_list,
     m_untrusted_functions_map |-> p.m_untrusted_functions_map,
     m_untrusted_functions_list |-> p.m_untrusted_functions_list]

NoEdl == <<>>

(***************************************************************************)
(* The lexer.  A file is a sequence of lexemes; the lexer classifies each  *)
(* one.  The parser never looks ahead beyond the declaration it parses, so *)
(* the file is revealed one chunk (a top-level declaration) at a time.     *)
(***************************************************************************)
Symbols ==
    {LEFT_CURLY_BRACKET, RIGHT_CURLY_BRACKET, LEFT_ROUND_BRACKET, RIGHT_ROUND_BRACKET,
     LEFT_SQUARE_BRACKET, RIGHT_SQUARE_BRACKET, LEFT_ARROW_BRACKET, RIGHT_ARROW_BRACKET,
     COMMA, SEMI_COLON, EQUAL_SIGN, ASTERISK}

GetNextToken(lexeme) ==
    IF lexeme \in Symbols THEN Symbol(lexeme)
    ELSE IF lexeme \in DOMAIN DecimalLiterals THEN UnsignedInteger(lexeme)
    ELSE IF lexeme \in DOMAIN HexLiterals THEN Hexidecimal(lexeme)
    ELSE Identifier(lexeme)

LexicalAnalyzer(lexemes) == [i \in 1..Len(lexemes) |-> GetNextToken(lexemes[i])]

\* The concatenation of a sequence of sequences, with sep between them.
RECURSIVE Join(_, _)
Join(seqs, sep) ==
    IF seqs = <<>> THEN <<>>
    ELSE IF Len(seqs) = 1 THEN seqs[1]
    ELSE seqs[1] \o sep \o Join(Tail(seqs), sep)

\* The sequences over S of length at most n.
SeqsUpTo(S, n) == UNION {[1..k -> S] : k \in 0..n}

VARIABLES parser, pc, edl, file, complete, calls, decls, returned

\* The statics of EnableEnclaveRestrictContainingProcessAccessOnce, the place
\* of every caller in it, and what the enclave API was asked to do.
VARIABLES s_have_run_once, s_lock, at, invocations, invoking, failed_fast

once == <<s_have_run_once, s_lock, at, invocations, invoking, failed_fast>>

\* One call of an export of the enclave from the host: the place of the host
\* in CallVtl1ExportFromVtl0Impl and of the enclave in CallVtl1ExportFromVtl1,
\* the EnclaveFunctionContext of the host, the size of the flatbuffer the
\* implementation built, the owning pointers of both sides,
\* the HRESULT of the enclave, and the VTL0 heap block of the return
\* parameters with the number of times it was freed.
VARIABLES host_at, enclave_at, function_context, out_params_size, vtl0_return_params, return_buffer, hr, heap, frees

abi == <<host_at, enclave_at, function_context, out_params_size, vtl0_return_params, return_buffer, hr, heap, frees>>

\* The state of the generated ABI layer of an enclave and its host.
runtime == <<once, abi>>

parsing == <<parser, pc, edl, file, complete, calls, decls, returned>>

vars == <<parsing, runtime>>

MaxCallers == 3

\* nullptr, and the address of the VTL0 block of the return parameters.
NULL == "nullptr"

ADDRESS == "buffer"

\* The EnclaveFunctionContext before the host has filled it.
NoContext ==
    [m_forwarded_parameters |-> [buffer |-> NULL, buffer_size |-> 0],
     m_returned_parameters |-> [buffer |-> NULL, buffer_size |-> 0]]

\* The threads that call an export of the enclave.
Callers == 1..MaxCallers

\* s_lock is held by no thread.
NoCaller == 0

Failure(error_id) == [ok |-> FALSE, err |-> error_id, edl |-> NoEdl]

Success(value) == [ok |-> TRUE, err |-> "", edl |-> value]

Init ==
    /\ parser = NewParser
    /\ pc = "Idle"
    /\ edl = NoEdl
    /\ file = <<>>
    /\ complete = FALSE
    /\ calls = 0
    /\ decls = 0
    /\ returned = <<>>
    /\ s_have_run_once = FALSE
    /\ s_lock = NoCaller
    /\ at = [caller \in Callers |-> "Enter"]
    /\ invocations = 0
    /\ invoking = FALSE
    /\ failed_fast = FALSE
    /\ host_at = "Enter"
    /\ enclave_at = "Idle"
    /\ function_context = NoContext
    /\ out_params_size = 0
    /\ vtl0_return_params = NULL
    /\ return_buffer = NULL
    /\ hr = ""
    /\ heap = "Unallocated"
    /\ frees = 0

\* The lexer can reveal more of the file: the parser has used up what was
\* revealed, the end of the file was not met, and this is the first reading.
CanFeed == parser.input = <<>> /\ ~parser.eof /\ calls = 1

Offered(Chunks, max) ==
    IF CanFeed THEN (IF decls < max THEN Chunks ELSE {}) ELSE {<<>>}

Fed(chunk) ==
    IF CanFeed
    THEN [parser EXCEPT !.input = LexicalAnalyzer(chunk), !.eof = (chunk = <<>>)]
    ELSE parser

\* The parser moves on to nextpc, or the exception leaves Parse.
Continue(p, nextpc, chunk) ==
    /\ parser' = p
    /\ pc' = IF p.err # "" THEN "Failed" ELSE nextpc
    /\ returned' = IF p.err # "" THEN Append(returned, Failure(p.err)) ELSE returned
    /\ file' = IF CanFeed THEN file \o chunk ELSE file
    /\ decls' = IF CanFeed /\ pc = "ParseBody" THEN decls + 1 ELSE decls

\* Parse up to the call of ParseBody, on a new EdlParser.
Parse(Headers) ==
    /\ pc = "Idle"
    /\ \E header \in Headers :
        LET p0 == [parser EXCEPT !.input = LexicalAnalyzer(header)]
            p1 == ThrowIfExpectedTokenNotNext(p0, EDL_ENCLAVE_KEYWORD)
            p2 == Bind(p1, LAMBDA q : ThrowIfExpectedTokenNotNext(q, LEFT_CURLY_BRACKET))
        IN  /\ parser' = p2
            /\ pc' = IF p2.err # "" THEN "Failed" ELSE "ParseBody"
            /\ returned' = IF p2.err # "" THEN Append(returned, Failure(p2.err)) ELSE returned
            /\ file' = header
            /\ calls' = 1
    /\ UNCHANGED <<edl, complete, decls>>
    /\ UNCHANGED runtime

\* One iteration of the loop of ParseBody whose token is keyword.
ParseBodyIteration(Chunks, max, keyword, Handler(_)) ==
    /\ \E chunk \in Offered(Chunks, max) :
        LET p0 == Fed(chunk)
            token == PeekAtCurrentToken(p0)
        IN  /\ token.text = keyword
            /\ Continue(Handler(GetCurrentTokenAndMoveToNextToken(p0)), "ParseBody", chunk)
    /\ UNCHANGED <<edl, complete, calls>>
    /\ UNCHANGED runtime

ParseBodyTrusted(Chunks, max) ==
    /\ pc = "ParseBody"
    /\ ParseBodyIteration(Chunks, max, EDL_TRUSTED_KEYWORD, LAMBDA q : ParseFunctions(q, "Trusted"))

ParseBodyUntrusted(Chunks, max) ==
    /\ pc = "ParseBody"
    /\ ParseBodyIteration(Chunks, max, EDL_UNTRUSTED_KEYWORD, LAMBDA q : ParseFunctions(q, "Untrusted"))

ParseBodyEnum(Chunks, max) ==
    /\ pc = "ParseBody"
    /\ ParseBodyIteration(Chunks, max, EDL_ENUM_KEYWORD, LAMBDA q : ParseEnum(q))

ParseBodyStruct(Chunks, max) ==
    /\ pc = "ParseBody"
    /\ ParseBodyIteration(Chunks, max, EDL_STRUCT_KEYWORD, LAMBDA q : ParseStruct(q))

BodyKeywords ==
    {EDL_TRUSTED_KEYWORD, EDL_UNTRUSTED_KEYWORD, EDL_ENUM_KEYWORD, EDL_STRUCT_KEYWORD}

ParseBodyUnexpectedToken(Chunks, max) ==
    /\ pc = "ParseBody"
    /\ \E chunk \in Offered(Chunks, max) :
        LET p0 == Fed(chunk)
            token == PeekAtCurrentToken(p0)
        IN  /\ token.text \notin BodyKeywords \cup {RIGHT_CURLY_BRACKET, END_OF_FILE_CHARACTER}
            /\ Continue(Throw(GetCurrentTokenAndMoveToNextToken(p0), "UnexpectedToken"),
                        "ParseBody", chunk)
    /\ UNCHANGED <<edl, complete, calls>>
    /\ UNCHANGED runtime

\* The end of the file as the lexer can reveal it: '}' or nothing more.
Endings == {<<RIGHT_CURLY_BRACKET>>, <<>>}

\* The loop of ParseBody ends at '}' or at the end of the file.
ParseBodyLoopExit ==
    /\ pc = "ParseBody"
    /\ \E chunk \in (IF CanFeed THEN Endings ELSE {<<>>}) :
        LET p0 == Fed(chunk)
            token == PeekAtCurrentToken(p0)
        IN  /\ token.text \in {RIGHT_CURLY_BRACKET, END_OF_FILE_CHARACTER}
            /\ parser' = p0
            /\ file' = IF CanFeed THEN file \o chunk ELSE file
    /\ pc' = "PerformFinalValidations"
    /\ complete' = TRUE
    /\ UNCHANGED <<edl, calls, decls, returned>>
    /\ UNCHANGED runtime

PerformFinalValidationsStep ==
    /\ pc = "PerformFinalValidations"
    /\ \E e \in PerformFinalValidations(parser) :
        LET p1 == IF e = "" THEN parser ELSE Throw(parser, e) IN
        /\ parser' = p1
        /\ pc' = IF e = "" THEN "UpdateDeveloperTypeMetadata" ELSE "Failed"
        /\ returned' = IF e = "" THEN returned ELSE Append(returned, Failure(e))
    /\ UNCHANGED <<edl, file, complete, calls, decls>>
    /\ UNCHANGED runtime

\* UpdateDeveloperTypeMetadata, and ParseBody returns the Edl.
UpdateDeveloperTypeMetadataStep ==
    /\ pc = "UpdateDeveloperTypeMetadata"
    /\ \E order \in IterationOrders(DOMAIN parser.m_developer_types) :
        LET p1 == UpdateDeveloperTypeMetadata(parser, order) IN
        /\ parser' = p1
        /\ edl' = Edl(p1)
    /\ pc' = "ParseEnd"
    /\ UNCHANGED <<file, complete, calls, decls, returned>>
    /\ UNCHANGED runtime

\* The end of Parse: the closing '}' and the return of the Edl.
ParseEnd ==
    /\ pc = "ParseEnd"
    /\ LET p1 == ThrowIfExpectedTokenNotNext(parser, RIGHT_CURLY_BRACKET) IN
        /\ parser' = p1
        /\ pc' = IF p1.err # "" THEN "Failed" ELSE "Done"
        /\ returned' = Append(returned, IF p1.err # "" THEN Failure(p1.err) ELSE Success(edl))
        /\ edl' = IF p1.err # "" THEN NoEdl ELSE edl
    /\ UNCHANGED <<file, complete, calls, decls>>
    /\ UNCHANGED runtime

\* Parse is called again on the same EdlParser, once the whole file is known:
\* a new LexicalAnalyzer reads the same file from its start; no member of
\* the parser is reset.
ParseAgain(max) ==
    /\ pc \in {"Done", "Failed"}
    /\ complete
    /\ calls < max
    /\ LET p0 == [parser EXCEPT !.input = LexicalAnalyzer(file), !.eof = FALSE,
                                !.consumed = 0, !.err = ""]
           p1 == ThrowIfExpectedTokenNotNext(p0, EDL_ENCLAVE_KEYWORD)
           p2 == Bind(p1, LAMBDA q : ThrowIfExpectedTokenNotNext(q, LEFT_CURLY_BRACKET))
       IN  /\ parser' = p2
           /\ pc' = IF p2.err # "" THEN "Failed" ELSE "ParseBody"
           /\ returned' = IF p2.err # "" THEN Append(returned, Failure(p2.err)) ELSE returned
    /\ calls' = calls + 1
    /\ edl' = NoEdl
    /\ UNCHANGED <<file, complete, decls>>
    /\ UNCHANGED runtime

(***************************************************************************)
(* Enum declarations.                                                      *)
(***************************************************************************)
MaxEnumBlocks == 2

MaxEnumMembers == 2

Headers == {<<EDL_ENCLAVE_KEYWORD, LEFT_CURLY_BRACKET>>}

EnumMembers ==
    {<<name>> \o value : name \in {"A", "B"},
                         value \in {<<>>, <<EQUAL_SIGN, "5">>, <<EQUAL_SIGN, "0x10">>}}

\* The members, comma separated, with or without a comma after the last.
EnumBodies ==
    {Join(members, <<COMMA>>) \o trailing :
        members \in SeqsUpTo(EnumMembers, MaxEnumMembers) \ {<<>>},
        trailing \in {<<>>, <<COMMA>>}} \cup {<<>>}

EnumChunks ==
    {<<EDL_ENUM_KEYWORD>> \o name \o <<LEFT_CURLY_BRACKET>> \o body
        \o <<RIGHT_CURLY_BRACKET, SEMI_COLON>> :
        name \in {<<>>, <<"E">>}, body \in EnumBodies}

NextEnum ==
    \/ Parse(Headers)
    \/ ParseBodyEnum(EnumChunks, MaxEnumBlocks)
    \/ ParseBodyLoopExit
    \/ PerformFinalValidationsStep
    \/ UpdateDeveloperTypeMetadataStep
    \/ ParseEnd

SpecEnum == Init /\ [][NextEnum]_vars

\* The enum types of a returned Edl.
EnumTypesOf(value) ==
    {value.m_developer_types[n] : n \in DOMAIN value.m_developer_types}

\* The value an explicit value token stands for.
ValueOf(token) ==
    IF TryParseDecimal(token) # <<>> THEN TryParseDecimal(token)[1]
    ELSE TryParseHexidecimal(token)[1]

\* C7: in the IR of a successful Parse, an enum member declared with an
\* explicit value '= N' has position N and declared_position N.
C7_ExplicitValueIsPosition ==
    pc = "Done" =>
        \A type \in EnumTypesOf(edl) : \A i \in 1..Len(type.m_items) :
            LET member == type.m_items[i] IN
            member.m_value # <<>> =>
                /\ member.m_declared_position = <<ValueOf(member.m_value[1])>>
                /\ member.m_value_position = ValueOf(member.m_value[1])

\* C8: in the IR of a successful Parse, a member without a declared
\* position has the position of the member declared before it plus 1, and
\* position 0 when it is the first member of its type.
C8_ImplicitPositionFollowsPrevious ==
    pc = "Done" =>
        \A type \in EnumTypesOf(edl) : \A i \in 1..Len(type.m_items) :
            type.m_items[i].m_declared_position = <<>> =>
                type.m_items[i].m_value_position =
                    IF i = 1 THEN 0 ELSE type.m_items[i - 1].m_value_position + 1

\* A comma directly before '}' in the lexemes.
HasTrailingComma(lexemes) ==
    \E i \in 1..(Len(lexemes) - 1) :
        lexemes[i] = COMMA /\ lexemes[i + 1] = RIGHT_CURLY_BRACKET

\* C9: 'enum { A }' parses, and no file in which the last member of an enum
\* body is followed by a comma parses.
C9_TrailingCommaFails ==
    /\ pc = "Done" => ~HasTrailingComma(file)
    /\ file = <<"enclave", "{", "enum", "{", "A", "}", ";", "}">> => pc # "Failed"

(***************************************************************************)
(* Function banks.                                                         *)
(***************************************************************************)
MaxBanks == 2

MaxFunctionsPerBank == 2

FunctionDeclarations ==
    {<<"void", "F", LEFT_ROUND_BRACKET, RIGHT_ROUND_BRACKET, SEMI_COLON>>,
     <<"void", "F", LEFT_ROUND_BRACKET, "uint32_t", "x", RIGHT_ROUND_BRACKET, SEMI_COLON>>,
     <<"void", "F_1", LEFT_ROUND_BRACKET, RIGHT_ROUND_BRACKET, SEMI_COLON>>}

BankChunks ==
    {<<kind, LEFT_CURLY_BRACKET>> \o Join(functions, <<>>)
        \o <<RIGHT_CURLY_BRACKET, SEMI_COLON>> :
        kind \in {EDL_TRUSTED_KEYWORD, EDL_UNTRUSTED_KEYWORD},
        functions \in SeqsUpTo(FunctionDeclarations, MaxFunctionsPerBank)}

NextFunc ==
    \/ Parse(Headers)
    \/ ParseBodyTrusted(BankChunks, MaxBanks)
    \/ ParseBodyUntrusted(BankChunks, MaxBanks)
    \/ ParseBodyLoopExit
    \/ PerformFinalValidationsStep
    \/ UpdateDeveloperTypeMetadataStep
    \/ ParseEnd

SpecFunc == Init /\ [][NextFunc]_vars

\* The functions of a returned Edl, the trusted ones first.
FunctionsOf(value) == value.m_trusted_functions_list \o value.m_untrusted_functions_list

\* C4: the abi names of the functions of a parsed module are pairwise
\* distinct across both banks.
C4_AbiNamesDistinct ==
    pc = "Done" =>
        \A i, j \in 1..Len(FunctionsOf(edl)) :
            FunctionsOf(edl)[i].abi_m_name = FunctionsOf(edl)[j].abi_m_name => i = j

\* A parsed module with an overloaded name in one bank and, in the other
\* bank, a function whose name is an abi name of the first bank.
C4_Witness ==
    /\ pc = "Done"
    /\ Len(edl.m_trusted_functions_list) = 2
    /\ edl.m_trusted_functions_list[1].m_name = "F"
    /\ edl.m_trusted_functions_list[2].m_name = "F"
    /\ edl.m_trusted_functions_list[2].abi_m_name = "F_1"
    /\ Len(edl.m_untrusted_functions_list) >= 1
    /\ edl.m_untrusted_functions_list[1].m_name = "F_1"

\* The functions a file declares, in source order: one per '(' of the
\* file, with the name written before it and the bank whose keyword was the
\* last one before it.
RECURSIVE DeclaredFunctions(_, _, _)
DeclaredFunctions(lexemes, i, kind) ==
    IF i > Len(lexemes) THEN <<>>
    ELSE IF lexemes[i] \in {EDL_TRUSTED_KEYWORD, EDL_UNTRUSTED_KEYWORD}
    THEN DeclaredFunctions(lexemes, i + 1, lexemes[i])
    ELSE IF lexemes[i] = LEFT_ROUND_BRACKET
    THEN <<[kind |-> kind, name |-> lexemes[i - 1]]>> \o DeclaredFunctions(lexemes, i + 1, kind)
    ELSE DeclaredFunctions(lexemes, i + 1, kind)

\* The number of functions of the bank kind among the first k declared.
IndexInBank(declared, k, kind) == Cardinality({j \in 1..k : declared[j].kind = kind})

\* C5: the k-th function accepted (k from 0, over both banks, in source
\* order) has the abi name name_k.
C5_AbiNameIsNameAndIndex ==
    pc = "Done" =>
        LET declared == DeclaredFunctions(file, 1, "") IN
        /\ Len(declared) = Len(FunctionsOf(edl))
        /\ \A k \in 1..Len(declared) :
             LET list == IF declared[k].kind = EDL_TRUSTED_KEYWORD
                         THEN edl.m_trusted_functions_list
                         ELSE edl.m_untrusted_functions_list
                 j == IndexInBank(declared, k, declared[k].kind)
             IN  /\ j <= Len(list)
                 /\ list[j].m_name = declared[k].name
                 /\ list[j].abi_m_name = declared[k].name \o "_" \o ToString(k - 1)

\* A parsed module with two trusted functions followed by an untrusted one.
C5_Witness ==
    /\ pc = "Done"
    /\ Len(edl.m_trusted_functions_list) = 2
    /\ Len(edl.m_untrusted_functions_list) >= 1
    /\ edl.m_untrusted_functions_list[1].abi_m_name
           = edl.m_untrusted_functions_list[1].m_name \o "_2"

(***************************************************************************)
(* Structs that nest structs.                                              *)
(***************************************************************************)
MaxStructs == 3

StructNames == {"S1", "S2", "S3"}

StructFields ==
    {<<>>,
     <<"uint32_t", "x", SEMI_COLON>>,
     <<"uint8_t", ASTERISK, "p", SEMI_COLON>>,
     <<"vector", LEFT_ARROW_BRACKET, "uint8_t", RIGHT_ARROW_BRACKET, "v", SEMI_COLON>>,
     <<"S1", "a", SEMI_COLON>>,
     <<"S2", "b", SEMI_COLON>>}

StructChunks ==
    {<<EDL_STRUCT_KEYWORD, name, LEFT_CURLY_BRACKET>> \o field
        \o <<RIGHT_CURLY_BRACKET, SEMI_COLON>> :
        name \in StructNames, field \in StructFields}

NextStruct ==
    \/ Parse(Headers)
    \/ ParseBodyStruct(StructChunks, MaxStructs)
    \/ ParseBodyLoopExit
    \/ PerformFinalValidationsStep
    \/ UpdateDeveloperTypeMetadataStep
    \/ ParseEnd

SpecStruct == Init /\ [][NextStruct]_vars

\* A declaration that is a pointer (what = "pointer") or a vector
\* (what = "container") is reachable from the struct name through a chain
\* of struct-typed fields.
RECURSIVE Reaches(_, _, _)
Reaches(types, name, what) ==
    \E i \in 1..Len(types[name].m_fields) :
        LET field == types[name].m_fields[i] IN
        \/ what = "pointer" /\ HasPointer(field)
        \/ what = "container" /\ IsContainerType(field)
        \/ /\ IsEdlType(field, "Struct")
           /\ Reaches(types, field.m_edl_type_info.m_name, what)

\* C3: after a successful Parse, for every struct of developer_types,
\* contains_inner_pointer is true exactly when a pointer declaration is
\* reachable through struct-typed fields of any depth, and
\* contains_container_type likewise for vector declarations.
C3_MetadataIsTransitive ==
    pc = "Done" =>
        \A name \in DOMAIN edl.m_developer_types :
            LET type == edl.m_developer_types[name] IN
            type.m_type_kind = "Struct" =>
                /\ type.m_contains_inner_pointer
                       <=> Reaches(edl.m_developer_types, name, "pointer")
                /\ type.m_contains_container_type
                       <=> Reaches(edl.m_developer_types, name, "container")

(***************************************************************************)
(* Size and count attributes.                                              *)
(***************************************************************************)
MaxSizeDeclarations == 2

\* [in, size=v] or [in, count=v] in a parameter list, [size=v] or [count=v]
\* in a struct.
SizeAttributes(prefix) ==
    {<<LEFT_SQUARE_BRACKET>> \o prefix \o <<attribute, EQUAL_SIGN, value, RIGHT_SQUARE_BRACKET>> :
        attribute \in {"size", "count"}, value \in {"n", "5", "N"}}

\* The declarations beside the pointer: none, an unsigned integer, a
\* bool, an array of unsigned integers.
Siblings ==
    {<<>>,
     <<"uint32_t", "n">>,
     <<"bool", "n">>,
     <<"uint32_t", "n", LEFT_SQUARE_BRACKET, "2", RIGHT_SQUARE_BRACKET>>}

SizeFunctionChunks ==
    {<<EDL_TRUSTED_KEYWORD, LEFT_CURLY_BRACKET, "void", "F", LEFT_ROUND_BRACKET>>
        \o attributes \o <<"uint8_t", ASTERISK, "p">>
        \o (IF sibling = <<>> THEN <<>> ELSE <<COMMA>> \o sibling)
        \o <<RIGHT_ROUND_BRACKET, SEMI_COLON, RIGHT_CURLY_BRACKET, SEMI_COLON>> :
        attributes \in SizeAttributes(<<"in", COMMA>>), sibling \in Siblings}

SizeStructChunks ==
    {<<EDL_STRUCT_KEYWORD, "S", LEFT_CURLY_BRACKET>>
        \o attributes \o <<"uint8_t", ASTERISK, "p", SEMI_COLON>>
        \o (IF sibling = <<>> THEN <<>> ELSE sibling \o <<SEMI_COLON>>)
        \o <<RIGHT_CURLY_BRACKET, SEMI_COLON>> :
        attributes \in SizeAttributes(<<>>), sibling \in Siblings}

SizeChunks ==
    SizeFunctionChunks \cup SizeStructChunks
        \cup {<<EDL_ENUM_KEYWORD, LEFT_CURLY_BRACKET, "N", RIGHT_CURLY_BRACKET, SEMI_COLON>>}

NextSize ==
    \/ Parse(Headers)
    \/ ParseBodyTrusted(SizeChunks, MaxSizeDeclarations)
    \/ ParseBodyEnum(SizeChunks, MaxSizeDeclarations)
    \/ ParseBodyStruct(SizeChunks, MaxSizeDeclarations)
    \/ ParseBodyLoopExit
    \/ PerformFinalValidationsStep
    \/ UpdateDeveloperTypeMetadataStep
    \/ ParseEnd

SpecSize == Init /\ [][NextSize]_vars

\* The parameter lists and the field lists of a returned Edl.
DeclarationListsOf(value) ==
    {value.m_trusted_functions_list[i].m_parameters :
        i \in 1..Len(value.m_trusted_functions_list)}
    \cup {value.m_untrusted_functions_list[i].m_parameters :
        i \in 1..Len(value.m_untrusted_functions_list)}
    \cup {value.m_developer_types[n].m_fields : n \in DOMAIN value.m_developer_types}

\* The token is a member of the anonymous enum of the Edl.
IsAnonymousEnumMember(value, token) ==
    /\ EDL_ANONYMOUS_ENUM_KEYWORD \in DOMAIN value.m_developer_types
    /\ ItemsContain(value.m_developer_types[EDL_ANONYMOUS_ENUM_KEYWORD].m_items, token.text)

\* The token names a declaration of the list that is an unsigned integer
\* and not an array.
NamesUnsignedSibling(declarations, token) ==
    \E i \in 1..Len(declarations) :
        /\ declarations[i].m_name = token.text
        /\ declarations[i].m_edl_type_info.m_type_kind \in UnsignedKinds
        /\ declarations[i].m_array_dimensions = <<>>

\* C2: after a successful Parse, every identifier carried by a size or by
\* a count attribute that is not a member of the anonymous enum names a
\* sibling declaration of an unsigned integer kind that is not an array;
\* the count token is checked as the size token is.
C2_SizeAndCountResolve ==
    pc = "Done" =>
        \A declarations \in DeclarationListsOf(edl) : \A i \in 1..Len(declarations) :
            declarations[i].m_attribute_info # <<>> =>
                \A token \in {declarations[i].m_attribute_info[1].m_size_info,
                              declarations[i].m_attribute_info[1].m_count_info} :
                    IsIdentifier(token) /\ ~IsAnonymousEnumMember(edl, token) =>
                        NamesUnsignedSibling(declarations, token)

(***************************************************************************)
(* Reserved names.                                                         *)
(***************************************************************************)
MaxReservedDeclarations == 2

\* Names a file can give: a keyword, primitive type names, a free name.
GivenNames == {EDL_ENUM_KEYWORD, EDL_TRUSTED_KEYWORD, "uint32_t", "vector", "T"}

ReservedChunks ==
    {<<EDL_STRUCT_KEYWORD, name, LEFT_CURLY_BRACKET, RIGHT_CURLY_BRACKET, SEMI_COLON>> :
        name \in GivenNames}
    \cup {<<EDL_STRUCT_KEYWORD, "S", LEFT_CURLY_BRACKET, "uint32_t", name, SEMI_COLON,
            RIGHT_CURLY_BRACKET, SEMI_COLON>> : name \in GivenNames}
    \cup {<<EDL_ENUM_KEYWORD, name, LEFT_CURLY_BRACKET, "A", RIGHT_CURLY_BRACKET, SEMI_COLON>> :
        name \in GivenNames}
    \cup {<<EDL_TRUSTED_KEYWORD, LEFT_CURLY_BRACKET, "void", name, LEFT_ROUND_BRACKET,
            RIGHT_ROUND_BRACKET, SEMI_COLON, RIGHT_CURLY_BRACKET, SEMI_COLON>> :
        name \in GivenNames}
    \cup {<<EDL_TRUSTED_KEYWORD, LEFT_CURLY_BRACKET, "void", "F", LEFT_ROUND_BRACKET,
            "uint32_t", name, RIGHT_ROUND_BRACKET, SEMI_COLON, RIGHT_CURLY_BRACKET,
            SEMI_COLON>> : name \in GivenNames}

NextReserved ==
    \/ Parse(Headers)
    \/ ParseBodyTrusted(ReservedChunks, MaxReservedDeclarations)
    \/ ParseBodyEnum(ReservedChunks, MaxReservedDeclarations)
    \/ ParseBodyStruct(ReservedChunks, MaxReservedDeclarations)
    \/ ParseBodyLoopExit
    \/ PerformFinalValidationsStep
    \/ UpdateDeveloperTypeMetadataStep
    \/ ParseEnd

SpecReserved == Init /\ [][NextReserved]_vars

\* The names of the structs, named enums, functions, fields and parameters
\* of a returned Edl.
NamesOf(value) ==
    (DOMAIN value.m_developer_types \ {EDL_ANONYMOUS_ENUM_KEYWORD})
    \cup {FunctionsOf(value)[i].m_name : i \in 1..Len(FunctionsOf(value))}
    \cup UNION {{declarations[i].m_name : i \in 1..Len(declarations)} :
                   declarations \in DeclarationListsOf(value)}

\* C10: no successfully parsed IR has a struct, named enum, function, field
\* or parameter whose name is a reserved keyword or a primitive type name.
C10_NoReservedName ==
    pc = "Done" =>
        NamesOf(edl) \cap (ReservedKeywords \cup DOMAIN c_string_to_edltype_map) = {}

(***************************************************************************)
(* The whole parser: every kind of declaration, and Parse called again on  *)
(* the same EdlParser.                                                     *)
(***************************************************************************)
MaxDeclarations == 3

MaxParseCalls == 2

Chunks ==
    {<<EDL_ENUM_KEYWORD, LEFT_CURLY_BRACKET, RIGHT_CURLY_BRACKET, SEMI_COLON>>,
     <<EDL_ENUM_KEYWORD, LEFT_CURLY_BRACKET, "A", RIGHT_CURLY_BRACKET, SEMI_COLON>>,
     <<EDL_ENUM_KEYWORD, LEFT_CURLY_BRACKET, "B", RIGHT_CURLY_BRACKET, SEMI_COLON>>,
     <<EDL_ENUM_KEYWORD, "E", LEFT_CURLY_BRACKET, "X", RIGHT_CURLY_BRACKET, SEMI_COLON>>,
     <<EDL_STRUCT_KEYWORD, "S", LEFT_CURLY_BRACKET, "uint32_t", "x", SEMI_COLON,
       RIGHT_CURLY_BRACKET, SEMI_COLON>>,
     <<EDL_TRUSTED_KEYWORD, LEFT_CURLY_BRACKET, "void", "F", LEFT_ROUND_BRACKET,
       RIGHT_ROUND_BRACKET, SEMI_COLON, RIGHT_CURLY_BRACKET, SEMI_COLON>>,
     <<EDL_UNTRUSTED_KEYWORD, LEFT_CURLY_BRACKET, "void", "G", LEFT_ROUND_BRACKET,
       RIGHT_ROUND_BRACKET, SEMI_COLON, RIGHT_CURLY_BRACKET, SEMI_COLON>>,
     <<"import">>}

Next ==
    \/ Parse(Headers)
    \/ ParseBodyTrusted(Chunks, MaxDeclarations)
    \/ ParseBodyUntrusted(Chunks, MaxDeclarations)
    \/ ParseBodyEnum(Chunks, MaxDeclarations)
    \/ ParseBodyStruct(Chunks, MaxDeclarations)
    \/ ParseBodyUnexpectedToken(Chunks, MaxDeclarations)
    \/ ParseBodyLoopExit
    \/ PerformFinalValidationsStep
    \/ UpdateDeveloperTypeMetadataStep
    \/ ParseEnd
    \/ ParseAgain(MaxParseCalls)

Spec == Init /\ [][Next]_vars

\* The names of the developer types a file declares, each once, in the
\* order in which the file first declares them.
RECURSIVE FirstSeenTypes(_, _, _)
FirstSeenTypes(lexemes, i, seen) ==
    IF i >= Len(lexemes) THEN seen
    ELSE LET name == IF lexemes[i] = EDL_ENUM_KEYWORD /\ lexemes[i + 1] = LEFT_CURLY_BRACKET
                     THEN EDL_ANONYMOUS_ENUM_KEYWORD
                     ELSE lexemes[i + 1]
         IN  IF /\ lexemes[i] \in {EDL_ENUM_KEYWORD, EDL_STRUCT_KEYWORD}
                /\ \A j \in 1..Len(seen) : seen[j] # name
             THEN FirstSeenTypes(lexemes, i + 1, Append(seen, name))
             ELSE FirstSeenTypes(lexemes, i + 1, seen)

\* The names of the insertion-order list of a returned Edl.
OrderNamesOf(value) ==
    [i \in 1..Len(value.m_developer_types_insertion_order_list) |->
        value.m_developer_types_insertion_order_list[i].m_name]

\* C1: after a successful Parse, the insertion-order list names each
\* developer type exactly once, in first-seen source order, and its names
\* are the keys of developer_types.
C1_OrderListsEachTypeOnce ==
    pc = "Done" /\ calls = 1 =>
        /\ OrderNamesOf(edl) = FirstSeenTypes(file, 1, <<>>)
        /\ {OrderNamesOf(edl)[i] : i \in 1..Len(OrderNamesOf(edl))}
               = DOMAIN edl.m_developer_types

\* C6: when Parse has returned an Edl, Parse called again on the same
\* EdlParser with the same file returns an equal Edl.
C6_ParseTwiceIsEqual ==
    Len(returned) = 2 /\ returned[1].ok => returned[2] = returned[1]

(***************************************************************************)
(* Single declarations: attributes, pointers, arrays, vectors.             *)
(***************************************************************************)
MaxDeclDeclarations == 1

\* The attribute blocks a declaration can carry; <<>> is no block.
AttributeBlocks ==
    {<<>>,
     <<LEFT_SQUARE_BRACKET, "in", RIGHT_SQUARE_BRACKET>>,
     <<LEFT_SQUARE_BRACKET, "out", RIGHT_SQUARE_BRACKET>>,
     <<LEFT_SQUARE_BRACKET, "in", COMMA, "out", RIGHT_SQUARE_BRACKET>>,
     <<LEFT_SQUARE_BRACKET, "size", EQUAL_SIGN, "1", RIGHT_SQUARE_BRACKET>>,
     <<LEFT_SQUARE_BRACKET, "count", EQUAL_SIGN, "1", RIGHT_SQUARE_BRACKET>>,
     <<LEFT_SQUARE_BRACKET, "in", COMMA, "size", EQUAL_SIGN, "0", RIGHT_SQUARE_BRACKET>>,
     <<LEFT_SQUARE_BRACKET, "out", COMMA, "count", EQUAL_SIGN, "1", RIGHT_SQUARE_BRACKET>>,
     <<LEFT_SQUARE_BRACKET, "in", COMMA, "in", RIGHT_SQUARE_BRACKET>>,
     <<LEFT_SQUARE_BRACKET, "size", EQUAL_SIGN, "1", COMMA, "size", EQUAL_SIGN, "2",
       RIGHT_SQUARE_BRACKET>>}

DeclTypes ==
    {<<"uint8_t">>, <<"void">>,
     <<"vector", LEFT_ARROW_BRACKET, "uint8_t", RIGHT_ARROW_BRACKET>>}

\* A declaration named p: block, type, optional '*', name, optional [2].
DeclDeclarations ==
    {block \o type \o pointer \o <<"p">> \o dimensions :
        block \in AttributeBlocks, type \in DeclTypes, pointer \in {<<>>, <<ASTERISK>>},
        dimensions \in {<<>>, <<LEFT_SQUARE_BRACKET, "2", RIGHT_SQUARE_BRACKET>>}}

\* Two parameters, each with its own attribute block.
TwoParameters ==
    {first \o <<"uint8_t", "a", COMMA>> \o second \o <<"uint8_t", "b">> :
        first \in {<<>>, <<LEFT_SQUARE_BRACKET, "in", RIGHT_SQUARE_BRACKET>>},
        second \in {<<>>, <<LEFT_SQUARE_BRACKET, "in", RIGHT_SQUARE_BRACKET>>}}

DeclChunks ==
    {<<EDL_TRUSTED_KEYWORD, LEFT_CURLY_BRACKET, "void", "F", LEFT_ROUND_BRACKET>>
        \o parameters
        \o <<RIGHT_ROUND_BRACKET, SEMI_COLON, RIGHT_CURLY_BRACKET, SEMI_COLON>> :
        parameters \in DeclDeclarations \cup TwoParameters}
    \cup {<<EDL_STRUCT_KEYWORD, "S", LEFT_CURLY_BRACKET>> \o field
            \o <<SEMI_COLON, RIGHT_CURLY_BRACKET, SEMI_COLON>> :
            field \in DeclDeclarations}

NextDecl ==
    \/ Parse(Headers)
    \/ ParseBodyTrusted(DeclChunks, MaxDeclDeclarations)
    \/ ParseBodyStruct(DeclChunks, MaxDeclDeclarations)
    \/ ParseBodyLoopExit
    \/ PerformFinalValidationsStep
    \/ UpdateDeveloperTypeMetadataStep
    \/ ParseEnd

SpecDecl == Init /\ [][NextDecl]_vars

\* The places of a file where a declaration of type void* begins.
VoidPointers(lexemes) ==
    {i \in 1..(Len(lexemes) - 1) : lexemes[i] = "void" /\ lexemes[i + 1] = ASTERISK}

\* The file has a void* declaration without an attribute block before it.
HasUnannotatedVoidPointer(lexemes) ==
    \E i \in VoidPointers(lexemes) : lexemes[i - 1] # RIGHT_SQUARE_BRACKET

\* C11: a declaration of type void* fails with PointerToVoidMustBeAnnotated
\* exactly when it carries no attribute block; an annotated void* is not
\* rejected with that error.
C11_VoidPointerFailsOnlyUnannotated ==
    /\ HasUnannotatedVoidPointer(file) => parser.err = "PointerToVoidMustBeAnnotated"
    /\ parser.err = "PointerToVoidMustBeAnnotated" => HasUnannotatedVoidPointer(file)

\* The parameters of the functions of a returned Edl.
ParametersOf(value) ==
    UNION {{FunctionsOf(value)[i].m_parameters[j] :
               j \in 1..Len(FunctionsOf(value)[i].m_parameters)} :
           i \in 1..Len(FunctionsOf(value))}

\* C12: no parsed module has a function parameter that is a pointer and
\* has an array dimension or is of Vector kind, whatever its attributes.
C12_NoPointerToArrayParameter ==
    pc = "Done" =>
        \A parameter \in ParametersOf(edl) :
            HasPointer(parameter) =>
                /\ parameter.m_array_dimensions = <<>>
                /\ ~IsEdlType(parameter, "Vector")

(***************************************************************************)
(* Type names: declare before use.                                         *)
(***************************************************************************)
MaxTypeDeclarations == 3

\* The developer type names a file can declare and use.
DeveloperNames == {"S1", "S2", "E"}

\* The ways a declaration can name a type: directly or as a vector element.
TypeUses ==
    {<<name>> : name \in DeveloperNames \cup {"uint32_t"}}
    \cup {<<"vector", LEFT_ARROW_BRACKET, name, RIGHT_ARROW_BRACKET>> :
             name \in DeveloperNames \cup {"uint32_t"}}

TypeChunks ==
    {<<EDL_STRUCT_KEYWORD, name, LEFT_CURLY_BRACKET>> \o type
        \o <<"x", SEMI_COLON, RIGHT_CURLY_BRACKET, SEMI_COLON>> :
        name \in {"S1", "S2"}, type \in TypeUses}
    \cup {<<EDL_ENUM_KEYWORD, "E", LEFT_CURLY_BRACKET, "A", RIGHT_CURLY_BRACKET, SEMI_COLON>>}
    \cup {<<EDL_TRUSTED_KEYWORD, LEFT_CURLY_BRACKET, return, "F", LEFT_ROUND_BRACKET>> \o type
            \o <<"x", RIGHT_ROUND_BRACKET, SEMI_COLON, RIGHT_CURLY_BRACKET, SEMI_COLON>> :
            return \in {"void", "S1", "S2"}, type \in TypeUses}

NextTypes ==
    \/ Parse(Headers)
    \/ ParseBodyTrusted(TypeChunks, MaxTypeDeclarations)
    \/ ParseBodyEnum(TypeChunks, MaxTypeDeclarations)
    \/ ParseBodyStruct(TypeChunks, MaxTypeDeclarations)
    \/ ParseBodyLoopExit
    \/ PerformFinalValidationsStep
    \/ UpdateDeveloperTypeMetadataStep
    \/ ParseEnd

SpecTypes == Init /\ [][NextTypes]_vars

\* The places of a file where a developer type name is used as a type.
TypeUsesOf(lexemes) ==
    {i \in 2..Len(lexemes) :
        /\ lexemes[i] \in DeveloperNames
        /\ lexemes[i - 1] \notin {EDL_STRUCT_KEYWORD, EDL_ENUM_KEYWORD}}

\* The name used at place i is declared, up to its closing bracket, before i.
DeclaredBefore(lexemes, i) ==
    \E j \in 1..(i - 2) :
        /\ lexemes[j] \in {EDL_STRUCT_KEYWORD, EDL_ENUM_KEYWORD}
        /\ lexemes[j + 1] = lexemes[i]
        /\ \E k \in (j + 2)..(i - 1) : lexemes[k] = RIGHT_CURLY_BRACKET

\* The uses of a name before its declaration, outside and inside a vector.
UndeclaredUses(lexemes) ==
    {i \in TypeUsesOf(lexemes) : ~DeclaredBefore(lexemes, i)}

\* The developer type names a declaration refers to.
TypeNamesOf(declaration) ==
    {declaration.m_edl_type_info.m_name}
    \cup {declaration.m_edl_type_info.inner_type[i].m_name :
             i \in 1..Len(declaration.m_edl_type_info.inner_type)}

\* C13: every type name a declaration uses is a primitive or a developer
\* type fully declared earlier in the source, otherwise Parse fails with
\* DeveloperTypesMustBeDefinedBeforeUse (TypeInVectorMustBePreviouslyDefined
\* for a vector element); every struct of a parsed module refers only to
\* types that precede it, so no struct refers to itself and the struct
\* reference graph is acyclic.
C13_DeclareBeforeUse ==
    /\ pc = "Done" => UndeclaredUses(file) = {}
    /\ UndeclaredUses(file) # {} =>
           parser.err \in {"DeveloperTypesMustBeDefinedBeforeUse",
                           "TypeInVectorMustBePreviouslyDefined",
                           "DuplicateTypeDefinition"}
    /\ parser.err = "DeveloperTypesMustBeDefinedBeforeUse" =>
           \E i \in UndeclaredUses(file) : file[i - 1] # LEFT_ARROW_BRACKET
    /\ parser.err = "TypeInVectorMustBePreviouslyDefined" =>
           \E i \in UndeclaredUses(file) : file[i - 1] = LEFT_ARROW_BRACKET
    /\ pc = "Done" =>
           LET list == edl.m_developer_types_insertion_order_list IN
           \A i \in 1..Len(list) : \A f \in 1..Len(list[i].m_fields) :
               \A name \in TypeNamesOf(list[i].m_fields[f]) \ DOMAIN c_string_to_edltype_map :
                   \E j \in 1..(i - 1) : list[j].m_name = name

\* A struct that names itself as the type of its field is rejected.
C13_Witness ==
    /\ parser.err = "DeveloperTypesMustBeDefinedBeforeUse"
    /\ \E i \in UndeclaredUses(file) :
          /\ file[i - 1] = LEFT_CURLY_BRACKET
          /\ file[i - 3] = EDL_STRUCT_KEYWORD
          /\ file[i - 2] = file[i]

(***************************************************************************)
(* Function signatures per bank (SpecFunc).                                *)
(***************************************************************************)
\* The type names of the parameter list that begins at place i of a file,
\* each parameter written as a type and a name.
RECURSIVE ParameterTypesAt(_, _)
ParameterTypesAt(lexemes, i) ==
    IF i > Len(lexemes) \/ lexemes[i] = RIGHT_ROUND_BRACKET THEN <<>>
    ELSE IF lexemes[i] = COMMA THEN ParameterTypesAt(lexemes, i + 1)
    ELSE <<lexemes[i]>> \o ParameterTypesAt(lexemes, i + 2)

\* The functions a file declares, in source order, each with its bank and
\* its signature: the name followed by the parameter type names.
RECURSIVE DeclaredSignatures(_, _, _)
DeclaredSignatures(lexemes, i, kind) ==
    IF i > Len(lexemes) THEN <<>>
    ELSE IF lexemes[i] \in {EDL_TRUSTED_KEYWORD, EDL_UNTRUSTED_KEYWORD}
    THEN DeclaredSignatures(lexemes, i + 1, lexemes[i])
    ELSE IF lexemes[i] = LEFT_ROUND_BRACKET
    THEN <<[kind |-> kind,
            signature |-> <<lexemes[i - 1]>> \o ParameterTypesAt(lexemes, i + 1)]>>
         \o DeclaredSignatures(lexemes, i + 1, kind)
    ELSE DeclaredSignatures(lexemes, i + 1, kind)

\* A file declares a signature twice in one bank.
RepeatsSignature(lexemes) ==
    LET declared == DeclaredSignatures(lexemes, 1, "") IN
    \E a, b \in 1..Len(declared) : a # b /\ declared[a] = declared[b]

\* C14: within one bank no two functions have the same signature: a
\* repeated signature fails with DuplicateFunctionDeclaration, also across
\* blocks of the bank; the same name with other parameter types, and the
\* same signature in the other bank, are accepted as distinct entries.
C14_SignaturesUniquePerBank ==
    /\ RepeatsSignature(file) <=> parser.err = "DuplicateFunctionDeclaration"
    /\ pc = "Done" =>
           /\ Len(edl.m_trusted_functions_list) =
                  Cardinality({d \in 1..Len(DeclaredSignatures(file, 1, "")) :
                      DeclaredSignatures(file, 1, "")[d].kind = EDL_TRUSTED_KEYWORD})
           /\ Len(edl.m_untrusted_functions_list) =
                  Cardinality({d \in 1..Len(DeclaredSignatures(file, 1, "")) :
                      DeclaredSignatures(file, 1, "")[d].kind = EDL_UNTRUSTED_KEYWORD})
           /\ Cardinality(DOMAIN edl.m_trusted_functions_map)
                  = Len(edl.m_trusted_functions_list)
           /\ Cardinality(DOMAIN edl.m_untrusted_functions_map)
                  = Len(edl.m_untrusted_functions_list)

\* A parsed module with two overloads of F in the trusted bank and one of
\* their signatures again in the untrusted bank.
C14_Witness ==
    /\ pc = "Done"
    /\ DOMAIN edl.m_trusted_functions_map = {"F()", "F(uint32_t)"}
    /\ "F()" \in DOMAIN edl.m_untrusted_functions_map

(***************************************************************************)
(* Return types.                                                           *)
(***************************************************************************)
MaxReturnBanks == 2

MaxReturnFunctions == 2

ReturnDeclarations ==
    {<<"void", "F", LEFT_ROUND_BRACKET, RIGHT_ROUND_BRACKET, SEMI_COLON>>,
     <<"uint32_t", "G", LEFT_ROUND_BRACKET, RIGHT_ROUND_BRACKET, SEMI_COLON>>,
     <<"uint32_t", ASTERISK, "P", LEFT_ROUND_BRACKET, RIGHT_ROUND_BRACKET, SEMI_COLON>>,
     <<"void", ASTERISK, "Q", LEFT_ROUND_BRACKET, RIGHT_ROUND_BRACKET, SEMI_COLON>>}

ReturnChunks ==
    {<<kind, LEFT_CURLY_BRACKET>> \o Join(functions, <<>>)
        \o <<RIGHT_CURLY_BRACKET, SEMI_COLON>> :
        kind \in {EDL_TRUSTED_KEYWORD, EDL_UNTRUSTED_KEYWORD},
        functions \in SeqsUpTo(ReturnDeclarations, MaxReturnFunctions)}

NextReturn ==
    \/ Parse(Headers)
    \/ ParseBodyTrusted(ReturnChunks, MaxReturnBanks)
    \/ ParseBodyUntrusted(ReturnChunks, MaxReturnBanks)
    \/ ParseBodyLoopExit
    \/ PerformFinalValidationsStep
    \/ UpdateDeveloperTypeMetadataStep
    \/ ParseEnd

SpecReturn == Init /\ [][NextReturn]_vars

\* A file declares a function with a '*' on its return type.
ReturnsPointer(lexemes) ==
    \E i \in 1..(Len(lexemes) - 2) :
        lexemes[i] = ASTERISK /\ lexemes[i + 2] = LEFT_ROUND_BRACKET

\* C15: every function of a parsed module has a non-pointer return type
\* and a return declaration named "_return_value_" with out = true,
\* in = false, in_and_out = false; a function declared with a '*' on its
\* return type fails with ReturnValuesCannotBePointers.
C15_ReturnIsNotPointer ==
    /\ pc = "Done" =>
           \A i \in 1..Len(FunctionsOf(edl)) :
               LET return_info == FunctionsOf(edl)[i].m_return_info IN
               /\ ~HasPointer(return_info)
               /\ return_info.m_name = "_return_value_"
               /\ return_info.m_attribute_info # <<>>
               /\ return_info.m_attribute_info[1].m_out_present
               /\ ~return_info.m_attribute_info[1].m_in_present
               /\ ~return_info.m_attribute_info[1].m_in_and_out_present
    /\ ReturnsPointer(file) =>
           parser.err \in {"ReturnValuesCannotBePointers", "DuplicateFunctionDeclaration"}
    /\ parser.err = "ReturnValuesCannotBePointers" => ReturnsPointer(file)

\* A function with a pointer return type is rejected after another
\* function of its block was accepted.
C15_Witness ==
    /\ parser.err = "ReturnValuesCannotBePointers"
    /\ Len(parser.m_trusted_functions_list) = 1
    /\ ReturnsPointer(file)

(***************************************************************************)
(* Errors (Spec).                                                          *)
(***************************************************************************)
\* The places of a file that hold a token ParseBody does not expect.
UnexpectedTokens(lexemes) == {i \in 1..Len(lexemes) : lexemes[i] = "import"}

\* C16: errors are fatal: when a rule is violated Parse raises one error,
\* the first one met, consumes no token after it, validates nothing more
\* and returns no Edl.
C16_ErrorsAreFatal ==
    /\ parser.err # "" <=> pc = "Failed"
    /\ pc = "Failed" =>
           /\ edl = NoEdl
           /\ Len(returned) = calls
           /\ returned[calls] = Failure(parser.err)
    /\ pc = "Done" => Len(returned) = calls /\ returned[calls] = Success(edl)
    /\ pc \notin {"Failed", "Done", "Idle"} => Len(returned) = calls - 1
    /\ calls = 1 =>
           \A i \in UnexpectedTokens(file) :
               /\ pc = "Failed"
               /\ parser.err = "UnexpectedToken"
               /\ parser.consumed = i
               /\ i = Len(file)

\* Parse has failed at an unexpected token after it had parsed a struct:
\* the parser holds the struct, and no Edl is returned.
C16_Witness ==
    /\ pc = "Failed"
    /\ parser.err = "UnexpectedToken"
    /\ "S" \in DOMAIN parser.m_developer_types
    /\ returned = <<Failure("UnexpectedToken")>>

(***************************************************************************)
(* Attributes of declarations (SpecDecl).                                  *)
(***************************************************************************)
\* The place of the first ']' after place i of a file.
CloseOf(lexemes, i) ==
    CHOOSE k \in (i + 1)..Len(lexemes) :
        /\ lexemes[k] = RIGHT_SQUARE_BRACKET
        /\ \A j \in (i + 1)..(k - 1) : lexemes[j] # RIGHT_SQUARE_BRACKET

\* The lexemes of the attribute block that begins at place i.
BlockAt(lexemes, i) == {lexemes[k] : k \in (i + 1)..(CloseOf(lexemes, i) - 1)}

\* The parameters written from place i of a file up to ')': for each one
\* whether it has an attribute block, and the lexemes of the block.
\* begins: a parameter begins at place i.
RECURSIVE WrittenParameters(_, _, _)
WrittenParameters(lexemes, i, begins) ==
    IF i > Len(lexemes) \/ lexemes[i] = RIGHT_ROUND_BRACKET THEN <<>>
    ELSE IF begins /\ lexemes[i] = LEFT_SQUARE_BRACKET
    THEN <<[block |-> TRUE, keys |-> BlockAt(lexemes, i)]>>
         \o WrittenParameters(lexemes, CloseOf(lexemes, i) + 1, FALSE)
    ELSE IF begins
    THEN <<[block |-> FALSE, keys |-> {}]>> \o WrittenParameters(lexemes, i + 1, FALSE)
    ELSE WrittenParameters(lexemes, i + 1, lexemes[i] = COMMA)

\* The parameter lists a file writes, one per function, in source order.
RECURSIVE WrittenFunctions(_, _)
WrittenFunctions(lexemes, i) ==
    IF i > Len(lexemes) THEN <<>>
    ELSE IF lexemes[i] = LEFT_ROUND_BRACKET
    THEN <<WrittenParameters(lexemes, i + 1, TRUE)>> \o WrittenFunctions(lexemes, i + 1)
    ELSE WrittenFunctions(lexemes, i + 1)

\* The declarations of a returned Edl that have attributes.
AttributedDeclarationsOf(value) ==
    {d \in UNION {{declarations[i] : i \in 1..Len(declarations)} :
                     declarations \in DeclarationListsOf(value)} :
        d.m_attribute_info # <<>>}

\* C17: a function parameter written without an attribute block has
\* in = true and out = false in the IR; a parameter written with a block
\* has in and out as the block names them (both false when the block names
\* only size or count); for every declaration that has attributes,
\* in_and_out is true exactly when in and out are true.
C17_DefaultInAndDerivedInOut ==
    pc = "Done" =>
        /\ Len(WrittenFunctions(file, 1)) = Len(edl.m_trusted_functions_list)
        /\ \A k \in 1..Len(edl.m_trusted_functions_list) :
               LET written == WrittenFunctions(file, 1)[k]
                   parameters == edl.m_trusted_functions_list[k].m_parameters
               IN  /\ Len(written) = Len(parameters)
                   /\ \A j \in 1..Len(parameters) :
                          /\ parameters[j].m_attribute_info # <<>>
                          /\ parameters[j].m_attribute_info[1].m_in_present
                                 <=> (~written[j].block \/ "in" \in written[j].keys)
                          /\ parameters[j].m_attribute_info[1].m_out_present
                                 <=> ("out" \in written[j].keys)
        /\ \A d \in AttributedDeclarationsOf(edl) :
               d.m_attribute_info[1].m_in_and_out_present
                   <=> (d.m_attribute_info[1].m_in_present
                        /\ d.m_attribute_info[1].m_out_present)

\* A parsed function whose first parameter has no attribute block and
\* whose second parameter has the block [in].
C17_Witness ==
    /\ pc = "Done"
    /\ Len(edl.m_trusted_functions_list) = 1
    /\ Len(WrittenFunctions(file, 1)[1]) = 2
    /\ ~WrittenFunctions(file, 1)[1][1].block
    /\ WrittenFunctions(file, 1)[1][2].block


\* The places of a file where an attribute block begins (an array
\* dimension begins after a name).
AttributeBlocksOf(lexemes) ==
    {i \in 2..Len(lexemes) :
        /\ lexemes[i] = LEFT_SQUARE_BRACKET
        /\ lexemes[i - 1] \in {LEFT_ROUND_BRACKET, COMMA, LEFT_CURLY_BRACKET, SEMI_COLON}}

\* The attribute block at place i names a key twice.
RepeatsKey(lexemes, i) ==
    \E a, b \in (i + 1)..(CloseOf(lexemes, i) - 1) :
        /\ a # b
        /\ lexemes[a] = lexemes[b]
        /\ lexemes[a] \in {"in", "out", "size", "count"}

\* The attribute block at place i belongs to a struct field.
IsFieldBlock(lexemes, i) == lexemes[i - 1] \in {LEFT_CURLY_BRACKET, SEMI_COLON}

\* The attribute blocks of the file the parser has entered: it consumed
\* their opening bracket, so nothing before them failed.
EnteredBlocks == {i \in AttributeBlocksOf(file) : parser.consumed >= i}

\* C18: inside one attribute block no key occurs twice: a repeated key
\* fails with DuplicateAttributeFound; the check is per declaration, so the
\* same key on two parameters of one function is accepted.
C18_NoDuplicateAttribute ==
    /\ pc = "Done" => \A i \in AttributeBlocksOf(file) : ~RepeatsKey(file, i)
    /\ \A i \in EnteredBlocks :
           RepeatsKey(file, i) =>
               IF IsFieldBlock(file, i) /\ BlockAt(file, i) \cap {"in", "out"} # {}
               THEN parser.err = "NonSizeOrCountAttributeInStruct"
               ELSE parser.err = "DuplicateAttributeFound"
    /\ parser.err = "DuplicateAttributeFound" =>
           \E i \in EnteredBlocks : RepeatsKey(file, i)

\* A parsed function with [in] on each of its two parameters.
C18_Witness ==
    /\ pc = "Done"
    /\ Len(WrittenFunctions(file, 1)) = 1
    /\ Len(WrittenFunctions(file, 1)[1]) = 2
    /\ "in" \in WrittenFunctions(file, 1)[1][1].keys
    /\ "in" \in WrittenFunctions(file, 1)[1][2].keys

\* The fields of the structs of a returned Edl.
FieldsOf(value) ==
    UNION {{value.m_developer_types[n].m_fields[i] :
               i \in 1..Len(value.m_developer_types[n].m_fields)} :
           n \in DOMAIN value.m_developer_types}

\* The parser has entered the attribute block of a struct field that
\* writes in or out.
FieldHasDirection ==
    \E i \in EnteredBlocks :
        IsFieldBlock(file, i) /\ BlockAt(file, i) \cap {"in", "out"} # {}

\* C19: in the attribute block of a struct field only size and count are
\* accepted: in or out fails with NonSizeOrCountAttributeInStruct, and no
\* struct field of a parsed IR has in or out set.
C19_NoDirectionInStruct ==
    /\ pc = "Done" =>
           \A field \in FieldsOf(edl) :
               field.m_attribute_info # <<>> =>
                   /\ ~field.m_attribute_info[1].m_in_present
                   /\ ~field.m_attribute_info[1].m_out_present
                   /\ ~field.m_attribute_info[1].m_in_and_out_present
    /\ FieldHasDirection <=> parser.err = "NonSizeOrCountAttributeInStruct"

\* A struct field with the block [out, count=1] is rejected.
C19_Witness ==
    /\ parser.err = "NonSizeOrCountAttributeInStruct"
    /\ \E i \in AttributeBlocksOf(file) :
          IsFieldBlock(file, i) /\ BlockAt(file, i) = {"out", COMMA, "count", EQUAL_SIGN, "1"}

\* The declaration that follows the attribute block at place i is not a
\* pointer: no '*' stands between the block and the name p.
BlockOfNonPointer(lexemes, i) ==
    LET name == CHOOSE k \in (CloseOf(lexemes, i) + 1)..Len(lexemes) :
                    /\ lexemes[k] = "p"
                    /\ \A j \in (CloseOf(lexemes, i) + 1)..(k - 1) : lexemes[j] # "p"
    IN  \A j \in CloseOf(lexemes, i)..name : lexemes[j] # ASTERISK

\* The parser has entered an attribute block that writes size or count
\* on a declaration that is not a pointer.
SizeOnNonPointer ==
    \E i \in EnteredBlocks :
        /\ BlockAt(file, i) \cap {"size", "count"} # {}
        /\ \E k \in (CloseOf(file, i) + 1)..Len(file) : file[k] = "p"
        /\ BlockOfNonPointer(file, i)

\* C20: size or count on a declaration that is not a pointer fails with
\* SizeAndCountNotValidForNonPointer, so every declaration of a parsed IR
\* that carries size_info or count_info is a pointer; the literal size 0
\* on a pointer is accepted.
C20_SizeAndCountOnlyOnPointer ==
    /\ pc = "Done" =>
           \A d \in AttributedDeclarationsOf(edl) :
               (~IsEmpty(d.m_attribute_info[1].m_size_info)
                \/ ~IsEmpty(d.m_attribute_info[1].m_count_info)) => HasPointer(d)
    /\ SizeOnNonPointer =>
           parser.err \in {"SizeAndCountNotValidForNonPointer", "DuplicateAttributeFound",
                           "NonSizeOrCountAttributeInStruct"}
    /\ parser.err = "SizeAndCountNotValidForNonPointer" => SizeOnNonPointer
    /\ file = <<"enclave", "{", "trusted", "{", "void", "F", "(", "[", "in", ",", "size",
                "=", "0", "]", "uint8_t", "*", "p", ")", ";", "}", ";", "}">> => parser.err = ""

\* A parsed function whose pointer parameter has the literal size 0.
C20_Witness ==
    /\ pc = "Done"
    /\ \E d \in AttributedDeclarationsOf(edl) :
          /\ d.m_attribute_info[1].m_size_info = UnsignedInteger("0")
          /\ HasPointer(d)
          /\ d.m_parent_kind = "Function"


\* The errors of the final validation pass.
FinalValidationErrors ==
    {"SizeOrCountAttributeNotFound", "SizeOrCountForArrayNotValid", "SizeOrCountInvalidType"}

\* C21: the final validation pass is entered only after the module body
\* was closed by '}': a body that ends at the end of the file fails with
\* ExpectedTokenNotFound, and no final-validation error is reported for it.
C21_FinalValidationAfterClose ==
    (complete /\ file[Len(file)] # RIGHT_CURLY_BRACKET) =>
        /\ parser.err \notin FinalValidationErrors
        /\ pc = "Failed" => parser.err = "ExpectedTokenNotFound"


(***************************************************************************)
(* Anonymous and named enum blocks with plain members.                     *)
(***************************************************************************)
MaxAnonBlocks == 2

MaxAnonMembers == 2

AnonChunks ==
    {<<EDL_ENUM_KEYWORD>> \o name \o <<LEFT_CURLY_BRACKET>> \o Join(members, <<COMMA>>)
        \o <<RIGHT_CURLY_BRACKET, SEMI_COLON>> :
        name \in {<<>>, <<"E">>},
        members \in SeqsUpTo({<<"A">>, <<"B">>}, MaxAnonMembers)}

NextAnon ==
    \/ Parse(Headers)
    \/ ParseBodyEnum(AnonChunks, MaxAnonBlocks)
    \/ ParseBodyLoopExit
    \/ PerformFinalValidationsStep
    \/ UpdateDeveloperTypeMetadataStep
    \/ ParseEnd

SpecAnon == Init /\ [][NextAnon]_vars

\* The place of the keyword 'enum' that opens the block holding place k.
EnumBlockOf(lexemes, k) ==
    CHOOSE i \in 1..k :
        /\ lexemes[i] = EDL_ENUM_KEYWORD
        /\ \A j \in (i + 1)..k : lexemes[j] # EDL_ENUM_KEYWORD

\* The places of a file where a member of an anonymous enum block is named.
AnonymousMemberPlaces(lexemes) ==
    {k \in 1..Len(lexemes) :
        /\ lexemes[k] \in {"A", "B"}
        /\ \E i \in 1..k : lexemes[i] = EDL_ENUM_KEYWORD
        /\ lexemes[EnumBlockOf(lexemes, k) + 1] = LEFT_CURLY_BRACKET}

\* The member names of an enum type.
ItemNamesOf(type) == {type.m_items[i].m_name : i \in 1..Len(type.m_items)}

\* C22: all anonymous enum blocks contribute to the one developer type
\* keyed by the anonymous sentinel: after a successful Parse its items are
\* exactly the members of every anonymous block, and a member name repeated
\* within one anonymous block or across two fails with EnumNameDuplicated.
C22_AnonymousEnumIsMerged ==
    /\ (pc = "Done" /\ AnonymousMemberPlaces(file) # {}) =>
           /\ EDL_ANONYMOUS_ENUM_KEYWORD \in DOMAIN edl.m_developer_types
           /\ ItemNamesOf(edl.m_developer_types[EDL_ANONYMOUS_ENUM_KEYWORD]) =
                  {file[k] : k \in AnonymousMemberPlaces(file)}
           /\ Len(edl.m_developer_types[EDL_ANONYMOUS_ENUM_KEYWORD].m_items) =
                  Cardinality(AnonymousMemberPlaces(file))
    /\ \A a, b \in AnonymousMemberPlaces(file) :
           (a < b /\ file[a] = file[b] /\ parser.consumed >= b) =>
               parser.err = "EnumNameDuplicated"

\* Two anonymous blocks were parsed and the anonymous type has the member
\* of each.
C22_Witness ==
    /\ pc = "Done"
    /\ \E a, b \in AnonymousMemberPlaces(file) :
          /\ EnumBlockOf(file, a) # EnumBlockOf(file, b)
          /\ file[a] = "A"
          /\ file[b] = "B"
    /\ ItemNamesOf(edl.m_developer_types[EDL_ANONYMOUS_ENUM_KEYWORD]) = {"A", "B"}


\* C23: in every enum type of a parsed module, the anonymous enum merged
\* from several blocks included, exactly one member has is_default = true,
\* and it is the first member declared for the type.
C23_OneDefaultMember ==
    pc = "Done" =>
        \A type \in EnumTypesOf(edl) : \A i \in 1..Len(type.m_items) :
            type.m_items[i].m_is_default_value <=> i = 1


(***************************************************************************)
(* Enum blocks with other tokens in the place of '{' and of a member name. *)
(***************************************************************************)
MaxTokenBlocks == 2

MaxTokenMembers == 2

TokenChunks ==
    {<<EDL_ENUM_KEYWORD>> \o name \o <<open>> \o Join(members, <<COMMA>>)
        \o <<RIGHT_CURLY_BRACKET, SEMI_COLON>> :
        name \in {<<>>, <<"E">>},
        open \in {LEFT_CURLY_BRACKET, SEMI_COLON},
        members \in SeqsUpTo({<<"A">>, <<"5">>}, MaxTokenMembers) \ {<<>>}}

NextTokens ==
    \/ Parse(Headers)
    \/ ParseBodyEnum(TokenChunks, MaxTokenBlocks)
    \/ ParseBodyLoopExit
    \/ PerformFinalValidationsStep
    \/ UpdateDeveloperTypeMetadataStep
    \/ ParseEnd

SpecTokens == Init /\ [][NextTokens]_vars

\* C24: a named enum requires '{' directly after its name: with any other
\* token in that place Parse fails, so in a parsed file the name of every
\* enum is followed by '{'.
C24_NamedEnumNeedsBracket ==
    pc = "Done" =>
        \A i \in 1..(Len(file) - 2) :
            (file[i] = EDL_ENUM_KEYWORD /\ file[i + 1] # LEFT_CURLY_BRACKET) =>
                file[i + 2] = LEFT_CURLY_BRACKET

\* C25: every enum member name of a parsed module is an identifier, and a
\* literal in the place of a member name fails with
\* EnumValueIdentifierNotFound.
C25_MemberNameIsIdentifier ==
    /\ pc = "Done" =>
           \A type \in EnumTypesOf(edl) : \A i \in 1..Len(type.m_items) :
               IsIdentifier(GetNextToken(type.m_items[i].m_name))
    /\ \A k \in 1..Len(file) :
           (file[k] = "5" /\ parser.consumed >= k) =>
               parser.err = "EnumValueIdentifierNotFound"


(***************************************************************************)
(* Array dimensions.                                                       *)
(***************************************************************************)
MaxArrayBlocks == 2

\* The array dimensions written after the name of a field or parameter.
ArrayDimensionSuffixes ==
    {<<>>,
     <<LEFT_SQUARE_BRACKET, "2", RIGHT_SQUARE_BRACKET>>,
     <<LEFT_SQUARE_BRACKET, "A", RIGHT_SQUARE_BRACKET>>,
     <<LEFT_SQUARE_BRACKET, "B", RIGHT_SQUARE_BRACKET>>,
     <<LEFT_SQUARE_BRACKET, "0x10", RIGHT_SQUARE_BRACKET>>,
     <<LEFT_SQUARE_BRACKET, "2", RIGHT_SQUARE_BRACKET,
       LEFT_SQUARE_BRACKET, "2", RIGHT_SQUARE_BRACKET>>,
     <<LEFT_SQUARE_BRACKET, "A", RIGHT_SQUARE_BRACKET,
       LEFT_SQUARE_BRACKET, "2", RIGHT_SQUARE_BRACKET>>}

ArrayChunks ==
    {<<EDL_ENUM_KEYWORD, LEFT_CURLY_BRACKET, "A", RIGHT_CURLY_BRACKET, SEMI_COLON>>}
    \cup {<<EDL_STRUCT_KEYWORD, name, LEFT_CURLY_BRACKET, "uint8_t", "p">> \o suffix
              \o <<SEMI_COLON, RIGHT_CURLY_BRACKET, SEMI_COLON>> :
          name \in {"S", "T"}, suffix \in ArrayDimensionSuffixes}
    \cup {<<EDL_TRUSTED_KEYWORD, LEFT_CURLY_BRACKET, "void", "F", LEFT_ROUND_BRACKET,
            "uint8_t", "p">> \o suffix
              \o <<RIGHT_ROUND_BRACKET, SEMI_COLON, RIGHT_CURLY_BRACKET, SEMI_COLON>> :
          suffix \in ArrayDimensionSuffixes}

NextArray ==
    \/ Parse(Headers)
    \/ ParseBodyEnum(ArrayChunks, MaxArrayBlocks)
    \/ ParseBodyStruct(ArrayChunks, MaxArrayBlocks)
    \/ ParseBodyTrusted(ArrayChunks, MaxArrayBlocks)
    \/ ParseBodyLoopExit
    \/ PerformFinalValidationsStep
    \/ UpdateDeveloperTypeMetadataStep
    \/ ParseEnd

SpecArray == Init /\ [][NextArray]_vars

\* The places of the values of the first array dimensions of a file.
DimensionPlaces(lexemes) ==
    {k \in 3..Len(lexemes) :
        lexemes[k - 1] = LEFT_SQUARE_BRACKET /\ lexemes[k - 2] = "p"}

\* The value at place k is an unsigned-integer literal or names a member
\* of an anonymous enum block written before it.
IsDimensionValue(lexemes, k) ==
    \/ lexemes[k] \in DOMAIN DecimalLiterals
    \/ \E j \in 3..(k - 1) :
          /\ lexemes[j] = lexemes[k]
          /\ lexemes[j - 1] = LEFT_CURLY_BRACKET
          /\ lexemes[j - 2] = EDL_ENUM_KEYWORD

\* A second dimension follows the dimension whose value is at place k.
HasSecondDimension(lexemes, k) ==
    k + 2 <= Len(lexemes) /\ lexemes[k + 2] = LEFT_SQUARE_BRACKET

\* The array dimension values the parser has consumed.
EnteredDimensions == {k \in DimensionPlaces(file) : parser.consumed >= k}

\* C26: a declaration has at most one array dimension: a second '[' fails
\* with OnlySingleDimensionsSupported, and a dimension value that is
\* neither an unsigned-integer literal nor the name of an anonymous-enum
\* member declared before it fails with ArrayDimensionIdentifierInvalid.
C26_SingleValidDimension ==
    /\ pc = "Done" =>
           /\ \A d \in DeclarationListsOf(edl) : \A i \in 1..Len(d) :
                  Len(d[i].m_array_dimensions) <= 1
           /\ \A k \in DimensionPlaces(file) :
                  IsDimensionValue(file, k) /\ ~HasSecondDimension(file, k)
    /\ \A k \in EnteredDimensions :
           IF ~IsDimensionValue(file, k)
           THEN parser.err = "ArrayDimensionIdentifierInvalid"
           ELSE HasSecondDimension(file, k) => parser.err = "OnlySingleDimensionsSupported"
    /\ parser.err = "ArrayDimensionIdentifierInvalid" =>
           \E k \in EnteredDimensions : ~IsDimensionValue(file, k)
    /\ parser.err = "OnlySingleDimensionsSupported" =>
           \E k \in EnteredDimensions : HasSecondDimension(file, k)

\* A parsed struct whose field has the anonymous-enum member A as its one
\* dimension.
C26_Witness ==
    /\ pc = "Done"
    /\ \E d \in DeclarationListsOf(edl) : \E i \in 1..Len(d) :
          d[i].m_array_dimensions = <<"A">> /\ d[i].m_parent_kind = "Struct"


(***************************************************************************)
(* Files that end inside a declaration.                                    *)
(***************************************************************************)
MaxEofBlocks == 2

\* Well-formed blocks that go through every loop of the parser.
WholeChunks ==
    {<<"enum", "{", "A", "=", "1", ",", "B", "}", ";">>,
     <<"enum", "E", "{", "A", "}", ";">>,
     <<"struct", "S", "{", "[", "size", "=", "1", "]", "uint8_t", "*", "p", ";",
       "vector", "<", "uint8_t", ">", "v", ";", "uint8_t", "q", "[", "2", "]", ";", "}", ";">>,
     <<"trusted", "{", "void", "F", "(", "[", "in", ",", "out", "]", "uint8_t", "a", ",",
       "uint32_t", "b", ")", ";", "void", "G", "(", ")", ";", "}", ";">>,
     <<"untrusted", "{", "void", "F", "(", ")", ";", "}", ";">>,
     <<"import", ";">>}

\* The blocks and every file end inside one: the lexer has nothing after
\* the last token of a chunk that is not whole.
EofChunks ==
    UNION {{SubSeq(chunk, 1, n) : n \in 1..Len(chunk)} : chunk \in WholeChunks}

NextEof ==
    \/ Parse(Headers)
    \/ ParseBodyTrusted(EofChunks, MaxEofBlocks)
    \/ ParseBodyUntrusted(EofChunks, MaxEofBlocks)
    \/ ParseBodyEnum(EofChunks, MaxEofBlocks)
    \/ ParseBodyStruct(EofChunks, MaxEofBlocks)
    \/ ParseBodyUnexpectedToken(EofChunks, MaxEofBlocks)
    \/ ParseBodyLoopExit
    \/ PerformFinalValidationsStep
    \/ UpdateDeveloperTypeMetadataStep
    \/ ParseEnd

SpecEof == Init /\ [][NextEof]_vars

\* Parse runs on: no step of it waits for anything but its own progress.
SpecEofFair == SpecEof /\ WF_vars(NextEof)

\* C27: for every finite token stream Parse terminates: every iteration of
\* a loop of the parser takes a token of the file or raises, the end of the
\* file met inside a block is an error, and Parse ends with an Edl or an
\* error.
C27_ParseTerminates ==
    /\ [](parser.err # "NoProgress")
    /\ []((parser.eof /\ ~complete) => (pc = "Failed" /\ parser.err # ""))
    /\ [](pc = "ParseBody" => parser.consumed = Len(file))
    /\ <>(pc \in {"Done", "Failed"})

\* The file ended after the comma of a parameter list and Parse failed.
C27_Witness ==
    /\ pc = "Failed"
    /\ parser.eof
    /\ file[Len(file)] = COMMA
    /\ file[Len(file) - 1] = "a"


\* C28: in the Edl of a successful Parse every entry of the insertion-order
\* list agrees with the entry of developer_types of the same name: the same
\* contains_inner_pointer and contains_container_type flags and, for enums,
\* the same members.
C28_OrderListAgreesWithMap ==
    pc = "Done" =>
        \A i \in 1..Len(edl.m_developer_types_insertion_order_list) :
            LET listed == edl.m_developer_types_insertion_order_list[i]
                mapped == edl.m_developer_types[listed.m_name]
            IN  /\ listed.m_contains_inner_pointer = mapped.m_contains_inner_pointer
                /\ listed.m_contains_container_type = mapped.m_contains_container_type
                /\ ItemNamesOf(listed) = ItemNamesOf(mapped)


(***************************************************************************)
(* EnableEnclaveRestrictContainingProcessAccessOnce under concurrent       *)
(* callers.                                                                *)
(***************************************************************************)
\* The move of one caller from one place of the function to another.
Goes(caller, from, to) ==
    /\ ~failed_fast
    /\ at[caller] = from
    /\ at' = [at EXCEPT ![caller] = to]

\* if (!s_have_run_once.load(std::memory_order_acquire))
LoadAcquire(caller) ==
    /\ Goes(caller, "Enter", IF s_have_run_once THEN "Returned" ELSE "Lock")
    /\ UNCHANGED <<s_have_run_once, s_lock, invocations, invoking, failed_fast, parsing, abi>>

\* auto lock = s_lock.lock_exclusive(): the caller waits until no thread
\* holds the lock.
LockExclusive(caller) ==
    /\ s_lock = NoCaller
    /\ Goes(caller, "Lock", "Check")
    /\ s_lock' = caller
    /\ UNCHANGED <<s_have_run_once, invocations, invoking, failed_fast, parsing, abi>>

\* A stub of the second load that does not read the flag.
LoadRelaxedNotRead(caller) ==
    /\ Goes(caller, "Check", "Enable")
    /\ UNCHANGED <<s_have_run_once, s_lock, invocations, invoking, failed_fast, parsing, abi>>

\* if (!s_have_run_once.load(std::memory_order_relaxed))
LoadRelaxed(caller) ==
    /\ Goes(caller, "Check", IF s_have_run_once THEN "Unlock" ELSE "Enable")
    /\ UNCHANGED <<s_have_run_once, s_lock, invocations, invoking, failed_fast, parsing, abi>>

\* The call of EnableEnclaveRestrictContainingProcessAccess begins.
EnableEnclaveRestrictContainingProcessAccess(caller) ==
    /\ Goes(caller, "Enable", "Enabling")
    /\ invoking' = TRUE
    /\ UNCHANGED <<s_have_run_once, s_lock, invocations, failed_fast, parsing, abi>>

\* The call returns; FAIL_FAST_IF_FAILED ends the process on a failure.
FailFastIfFailed(caller) ==
    /\ \E succeeded \in BOOLEAN :
        /\ Goes(caller, "Enabling", IF succeeded THEN "Store" ELSE "Enabling")
        /\ invocations' = IF succeeded THEN invocations + 1 ELSE invocations
        /\ failed_fast' = ~succeeded
    /\ invoking' = FALSE
    /\ UNCHANGED <<s_have_run_once, s_lock, parsing, abi>>

\* s_have_run_once.store(true, std::memory_order_release)
StoreRelease(caller) ==
    /\ Goes(caller, "Store", "Unlock")
    /\ s_have_run_once' = TRUE
    /\ UNCHANGED <<s_lock, invocations, invoking, failed_fast, parsing, abi>>

\* The end of the scope of lock, and the return of the function.
UnlockExclusive(caller) ==
    /\ Goes(caller, "Unlock", "Returned")
    /\ s_lock' = NoCaller
    /\ UNCHANGED <<s_have_run_once, invocations, invoking, failed_fast, parsing, abi>>

NextOnce ==
    \E caller \in Callers :
        \/ LoadAcquire(caller)
        \/ LockExclusive(caller)
        \/ LoadRelaxed(caller)
        \/ EnableEnclaveRestrictContainingProcessAccess(caller)
        \/ FailFastIfFailed(caller)
        \/ StoreRelease(caller)
        \/ UnlockExclusive(caller)

SpecOnce == Init /\ [][NextOnce]_vars

\* C29: under every interleaving of concurrent callers,
\* EnableEnclaveRestrictContainingProcessAccess succeeds at most once, the
\* flag is set only after it succeeded and by the holder of the exclusive
\* lock, and no caller returns before that invocation has completed.
C29_EnabledOnceBeforeReturn ==
    /\ invocations <= 1
    /\ s_have_run_once => invocations = 1
    /\ \A caller \in Callers :
           /\ at[caller] = "Returned" => (invocations = 1 /\ ~invoking /\ s_have_run_once)
           /\ at[caller] \in {"Check", "Enable", "Enabling", "Store", "Unlock"} =>
                  s_lock = caller

\* Every caller has returned, after the one invocation that succeeded.
C29_Witness ==
    /\ \A caller \in Callers : at[caller] = "Returned"
    /\ invocations = 1


(***************************************************************************)
(* One call of an enclave export from the host, and the VTL0 buffer of its *)
(* return parameters.                                                      *)
(***************************************************************************)
MaxBufferSize == 2

BufferSizes == 0..MaxBufferSize

\* The heap block is freed through an owning pointer that holds pointer.
FreedThrough(pointer) ==
    /\ heap' = IF pointer # NULL THEN "Freed" ELSE heap
    /\ frees' = IF pointer # NULL THEN frees + 1 ELSE frees

\* The host fills function_context (HostHelpers.h lines 36-41).
FillFunctionContext ==
    /\ host_at = "Enter"
    /\ \E size \in BufferSizes :
        function_context' =
            [m_forwarded_parameters |-> [buffer |-> "in_params", buffer_size |-> size],
             m_returned_parameters |-> [buffer |-> NULL, buffer_size |-> 0]]
    /\ host_at' = "GetProcAddress"
    /\ UNCHANGED <<enclave_at, out_params_size, vtl0_return_params, return_buffer, hr, heap,
                   frees, parsing, once>>

\* RETURN_LAST_ERROR_IF_NULL(proc_address)
GetProcAddress ==
    /\ host_at = "GetProcAddress"
    /\ \E found \in BOOLEAN : host_at' = IF found THEN "CallEnclave" ELSE "Returned"
    /\ UNCHANGED <<enclave_at, function_context, out_params_size, vtl0_return_params,
                   return_buffer, hr, heap, frees, parsing, once>>

\* CallEnclave enters the export, or fails without entering it.
CallEnclave ==
    /\ host_at = "CallEnclave"
    /\ \E entered \in BOOLEAN :
        /\ host_at' = IF entered THEN "InEnclave" ELSE "Returned"
        /\ enclave_at' = IF entered THEN "CopyContext" ELSE enclave_at
    /\ UNCHANGED <<function_context, out_params_size, vtl0_return_params, return_buffer, hr,
                   heap, frees, parsing, once>>

\* A return of CallVtl1ExportFromVtl1 with the HRESULT result: the
\* destructor of vtl0_return_params frees the block it still owns.
ReturnFromVtl1(result) ==
    /\ enclave_at' = "Returned"
    /\ hr' = result
    /\ FreedThrough(vtl0_return_params)
    /\ vtl0_return_params' = NULL

\* A step of CallVtl1ExportFromVtl1 whose RETURN_IF_ macro returns failure
\* when it did not succeed, and that changes nothing else.
Checked(from, to, succeeded, failure) ==
    /\ enclave_at = from
    /\ IF succeeded
       THEN /\ enclave_at' = to
            /\ UNCHANGED <<vtl0_return_params, hr, heap, frees>>
       ELSE ReturnFromVtl1(failure)
    /\ UNCHANGED <<host_at, return_buffer, parsing, once>>

\* EnclaveCopyIntoEnclave of the function context (lines 1292-1299).
CopyContextIntoEnclave ==
    /\ \E succeeded \in BOOLEAN : Checked("CopyContext", "CheckForwarded", succeeded, "E_FAIL")
    /\ UNCHANGED <<function_context, out_params_size>>

\* RETURN_HR_IF(E_INVALIDARG, forward_params_size > 0 && buffer == nullptr)
CheckForwardedParameters ==
    /\ Checked("CheckForwarded", "AllocateInput",
               ~(function_context.m_forwarded_parameters.buffer_size > 0
                 /\ function_context.m_forwarded_parameters.buffer = NULL),
               "E_INVALIDARG")
    /\ UNCHANGED <<function_context, out_params_size>>

\* The input buffer of the enclave and the copy into it (lines 1305-1311).
CopyForwardedParameters ==
    /\ \E outcome \in {"S_OK", "E_OUTOFMEMORY", "E_FAIL"} :
        Checked("AllocateInput", "Impl", outcome = "S_OK", outcome)
    /\ UNCHANGED <<function_context, out_params_size>>

\* abi_impl_func builds the flatbuffer of the return parameters.
CallImpl ==
    /\ enclave_at = "Impl"
    /\ \E size \in BufferSizes : out_params_size' = size
    /\ enclave_at' = "AllocateVtl0Memory"
    /\ UNCHANGED <<host_at, function_context, vtl0_return_params, return_buffer, hr, heap,
                   frees, parsing, once>>

\* AllocateVtl0Memory(&vtl0_return_params, size) and RETURN_IF_NULL_ALLOC.
AllocateVtl0Memory ==
    /\ enclave_at = "AllocateVtl0Memory"
    /\ \E outcome \in {"S_OK", "E_OUTOFMEMORY", "E_FAIL"} :
        IF outcome = "S_OK"
        THEN /\ vtl0_return_params' = ADDRESS
             /\ heap' = "Allocated"
             /\ enclave_at' = "CopyOutData"
             /\ UNCHANGED <<hr, frees>>
        ELSE ReturnFromVtl1(outcome)
    /\ UNCHANGED <<host_at, function_context, out_params_size, return_buffer, parsing, once>>

\* EnclaveCopyOutOfEnclave of the flatbuffer into the block (lines 1323-1326).
CopyOutReturnParameters ==
    /\ \E succeeded \in BOOLEAN : Checked("CopyOutData", "CopyOutSize", succeeded, "E_FAIL")
    /\ UNCHANGED <<function_context, out_params_size>>

\* EnclaveCopyOutOfEnclave of bufferSize into the context of the host.
CopyOutBufferSize ==
    /\ \E succeeded \in BOOLEAN :
        /\ Checked("CopyOutSize", "CopyOutBuffer", succeeded, "E_FAIL")
        /\ function_context' =
               IF succeeded
               THEN [function_context EXCEPT
                        !.m_returned_parameters.buffer_size = out_params_size]
               ELSE function_context
    /\ UNCHANGED out_params_size

\* EnclaveCopyOutOfEnclave of buffer into the context of the host.
CopyOutBuffer ==
    /\ \E succeeded \in BOOLEAN :
        /\ Checked("CopyOutBuffer", "Release", succeeded, "E_FAIL")
        /\ function_context' =
               IF succeeded
               THEN [function_context EXCEPT
                        !.m_returned_parameters.buffer = vtl0_return_params]
               ELSE function_context
    /\ UNCHANGED out_params_size

\* A stub in which the enclave keeps the ownership of the block.
NotReleased ==
    /\ enclave_at = "Release"
    /\ enclave_at' = "ReturnOk"
    /\ UNCHANGED <<host_at, function_context, out_params_size, vtl0_return_params,
                   return_buffer, hr, heap, frees, parsing, once>>

\* vtl0_return_params.release()
Release ==
    /\ enclave_at = "Release"
    /\ vtl0_return_params' = NULL
    /\ enclave_at' = "ReturnOk"
    /\ UNCHANGED <<host_at, function_context, out_params_size, return_buffer, hr, heap,
                   frees, parsing, once>>

\* return S_OK
ReturnOk ==
    /\ enclave_at = "ReturnOk"
    /\ ReturnFromVtl1("S_OK")
    /\ UNCHANGED <<host_at, function_context, out_params_size, return_buffer, parsing, once>>

\* RETURN_IF_FAILED(ABI_PVOID_TO_HRESULT(result_from_vtl1)), and the owning
\* pointer return_buffer made from the context (HostHelpers.h lines 56-60).
TakeReturnBuffer ==
    /\ host_at = "InEnclave"
    /\ enclave_at = "Returned"
    /\ IF hr = "S_OK"
       THEN /\ host_at' = "Unpack"
            /\ return_buffer' = function_context.m_returned_parameters.buffer
       ELSE /\ host_at' = "Returned"
            /\ UNCHANGED return_buffer
    /\ UNCHANGED <<enclave_at, function_context, out_params_size, vtl0_return_params, hr,
                   heap, frees, parsing, once>>

\* The check of the size, the unpacking, and the return of the host: the
\* destructor of return_buffer frees the block (HostHelpers.h lines 61-64).
UnpackAndReturn ==
    /\ host_at = "Unpack"
    /\ host_at' = "Returned"
    /\ FreedThrough(return_buffer)
    /\ return_buffer' = NULL
    /\ UNCHANGED <<enclave_at, function_context, out_params_size, vtl0_return_params, hr,
                   parsing, once>>

NextAbi ==
    \/ FillFunctionContext
    \/ GetProcAddress
    \/ CallEnclave
    \/ CopyContextIntoEnclave
    \/ CheckForwardedParameters
    \/ CopyForwardedParameters
    \/ CallImpl
    \/ AllocateVtl0Memory
    \/ CopyOutReturnParameters
    \/ CopyOutBufferSize
    \/ CopyOutBuffer
    \/ Release
    \/ ReturnOk
    \/ TakeReturnBuffer
    \/ UnpackAndReturn

SpecAbi == Init /\ [][NextAbi]_vars

\* C30: the VTL0 buffer of the return parameters is freed exactly once on
\* every path.  When a step after the allocation fails the enclave frees it
\* and the context of the host does not hold its address; when the call
\* returns S_OK the context holds its address and size, the enclave owns
\* nothing, and the host frees it once.  It is never freed twice and never
\* leaked.
C30_ReturnBufferFreedOnce ==
    /\ frees <= 1
    /\ heap = "Freed" <=> frees = 1
    /\ ~(vtl0_return_params # NULL /\ return_buffer # NULL)
    /\ (enclave_at = "Returned" /\ hr # "S_OK") =>
           /\ heap # "Allocated"
           /\ function_context.m_returned_parameters.buffer = NULL
    /\ (enclave_at = "Returned" /\ hr = "S_OK") =>
           /\ function_context.m_returned_parameters =
                  [buffer |-> ADDRESS, buffer_size |-> out_params_size]
           /\ vtl0_return_params = NULL
           /\ heap = IF host_at = "Returned" THEN "Freed" ELSE "Allocated"
    /\ host_at = "Unpack" => (return_buffer = ADDRESS /\ heap = "Allocated")
    /\ host_at = "Returned" => heap # "Allocated"

\* The call returned S_OK and the host has freed the buffer.
C30_Witness ==
    /\ host_at = "Returned"
    /\ hr = "S_OK"
    /\ frees = 1
    /\ out_params_size = 0

====
